---- MODULE Spec2Model ----
(***************************************************************************)
(* A model of agent-gym: the episode runner (runners/base_runner.py), the  *)
(* step() of the three environment families with its timeout guard         *)
(* (envs/*.py, core/base.py), the proxy-model retry loop                   *)
(* (envs/NLPEnvironment.py), the agent's endpoint call (core/base.py,      *)
(* agents/deepseekAgent.py) and the two delivery modes of a completion.    *)
(*                                                                         *)
(* Rewards are Python floats 0.0, 1.0, -0.5, -0.1; the model counts them   *)
(* in tenths (0, 10, -5, -1), so the success threshold 0.5 is 5.           *)
(***************************************************************************)
EXTENDS Integers, Sequences, FiniteSets, TLC

\* ------------------------------------------------------------------ bounds
MaxTasks == 3        \* tasks in the task file
MaxTurns == 2        \* max_turns of a run_single_task call
MaxBatchTurns == 1   \* max_turns of a run_all_tasks call
MaxCalls == 2        \* tool calls in one action
MaxRetries == 3      \* largest max_retries of a _call_env_llm call
MaxContentLen == 2   \* length of a message content, in symbols
MaxFragLen == 2      \* length of one streamed fragment, in symbols
MaxTextLen == 6      \* length of a model message, in symbols
MaxDirs == 3         \* workspaces mkdtemp makes
MaxEpisodes == 2     \* Environment instances constructed
MaxMessages == 3     \* requests of one _make_api_calls_concurrent call
MaxWorkers == 2      \* max_workers of the thread pool
MaxRemembered == 3   \* calls the agent remembers from its last action
MaxResponseLen == 3  \* length of an observation, in characters
MaxSeconds == 2      \* the seconds of a timeout guard, in time units
MaxWork == 2         \* time a guarded piece of work needs
MaxGuards == 2       \* guarded steps in a row

\* ------------------------------------------------------- program constants
SuccessThreshold == 5
VerifiedReward == 10
TimeoutPenalty == -5
ErrorPenalty == -1

VARIABLES
    \* BaseRunner.run_all_tasks / run_single_task
    entry,          \* the method the caller invoked
    tasks_len,      \* len(self.tasks)
    max_turns,      \* the max_turns argument
    task_id,        \* the task_id argument / loop variable of run_all_tasks
    env_class,      \* the Environment class _create_environment instantiates
    results,        \* results list of run_all_tasks
    batch_summary,  \* the summary run_all_tasks returns
    rpc,            \* position of the runner
    turn_count,
    total_reward,
    done,
    trajectory,     \* log_data["trajectory"]
    summary,        \* what run_single_task is about to return
    env_state,      \* state of the Environment instance of this episode
    step_calls,     \* number of env.step() calls of this episode
    cleanups,       \* number of env.cleanup() calls of this episode
    \* OpenAICompatibleAgent._make_api_call, as called by act()
    api_requests,   \* requests.post calls made by the latest act()
    act_outcome,    \* how the latest act() ended
    \* NLPEnvironment.step as the runner's env.step
    proxy_exhausted \* the latest env.step() used up _call_env_llm's attempts

agentVars == <<api_requests, act_outcome>>

runnerVars == <<entry, tasks_len, max_turns, task_id, results, batch_summary, rpc,
                turn_count, total_reward, done, trajectory, summary,
                env_state, step_calls, cleanups, agentVars, proxy_exhausted,
                env_class>>

VARIABLES
    \* Environment.step / NLPEnvironment.reset and what they call
    family,         \* "cmd", "py" or "nlp": the Environment subclass
    caller,         \* "step" or "reset": the method invoked
    act_calls,      \* action["tool_calls"], one kind per call; <<>> = final answer
    task_verify,    \* what the task's verification does on this answer
    spc,            \* position inside the method
    call_idx,       \* index of the tool call being executed (from 1)
    tool_results,   \* the results list of _execute_tool_call
    alarm,          \* the SIGALRM timer of timeout_context
    step_ret,       \* what the method returned (or that it raised)
    max_retries,    \* _call_env_llm's max_retries
    attempt,        \* loop variable of _call_env_llm
    attempt_log,    \* outcome of each request attempt of this call
    sleeps,         \* arguments of the time.sleep calls of this call
    response,       \* the dict _call_env_llm returned
    history         \* self.history, one tag per entry

stepVars == <<family, caller, act_calls, task_verify, spc, call_idx,
              tool_results, alarm, step_ret, max_retries, attempt,
              attempt_log, sleeps, response, history>>

VARIABLES
    \* one chat completion, delivered as a stream and as one JSON body
    client,         \* "nlp" (_call_env_llm) or "agent" (_make_api_call)
    content,        \* the message content the endpoint produces
    sent,           \* how much of content the endpoint has put on the stream
    conforming,     \* no malformed line and no early close so far
    well_formed,    \* the content of the well-formed fragments sent, in order
    content_buffer, \* content_buffer of _stream_request / full_content
    dpc,            \* position of the streaming request
    stream_result,  \* what the streaming request returned or raised
    single_result   \* what the single-shot request returned or raised

deliveryVars == <<client, content, sent, conforming, well_formed,
                  content_buffer, dpc, stream_result, single_result>>

VARIABLES
    \* DeepSeekAgent._convert_response_to_action and the environment's
    \* json.loads of each call's arguments
    ptext,          \* the content of the model's message
    g_name,         \* the "name" value of the well-formed body "G"
    g_args,         \* the "arguments" value of the well-formed body "G"
    ppc,            \* position: "convert", "execute", "done", "raised"
    agent_action,   \* the Action act() hands back
    last_tool_calls,\* self._last_tool_calls
    env_calls       \* per call: the name and arguments the environment reads

parseVars == <<ptext, g_name, g_args, ppc, agent_action, last_tool_calls, env_calls>>

VARIABLES
    \* CommandLineEnvironment: the workspace directory and the file system
    driver,         \* who calls the Environment: run_all_tasks or a direct caller
    privileged,     \* the process may override file permissions
    wpc,            \* "start", "constructed", "ready", "failed", "cleaned"
    workspace_dir,  \* self.workspace_dir; NoDir is None
    dirs,           \* the workspace directories that exist
    files,          \* what each directory holds
    made,           \* directories mkdtemp has made
    episode         \* Environment instances constructed

workspaceVars == <<driver, privileged, wpc, workspace_dir, dirs, files, made,
                   episode>>

VARIABLES
    \* OpenAICompatibleAgent._make_api_calls_concurrent
    n_messages,     \* len(messages_list)
    max_workers,    \* size of the ThreadPoolExecutor
    call_outcome,   \* per request: how its _make_api_call ends
    future,         \* per future: "pending", "running", "finished"
    yielded,        \* the futures as_completed has yielded
    call_results,   \* results, each result named by the index of its request
    cpc             \* "as_completed", "exit", "raising", "returned", "raised"

concurrentVars == <<n_messages, max_workers, call_outcome, future, yielded,
                    call_results, cpc>>

VARIABLES
    \* DeepSeekAgent._format_tool_responses
    remembered,     \* the function names of self._last_tool_calls, in order
    env_response,   \* the environment's observation, as characters
    formatted,      \* what _format_tool_responses returns
    fpc             \* "format", "done"

formatVars == <<remembered, env_response, formatted, fpc>>

VARIABLES
    \* timeout_context(seconds) around a piece of work, and SIGALRM
    seconds,        \* the seconds argument
    work_left,      \* time the guarded work still needs
    work_end,       \* how the work ended: "normal", "exception", "timeout"
    gpc,            \* "enter", "work", "exit", "left"
    remaining,      \* time until the alarm goes off; 0: no alarm pending
    tripped,        \* SIGALRM delivered, its Python handler not yet run
    handler,        \* the installed SIGALRM handler
    old_handler,    \* old_handler of the latest guard
    raised_in,      \* where the latest guard raised TimeoutError
    guards          \* timeout_context calls so far

guardVars == <<seconds, work_left, work_end, gpc, remaining, tripped, handler,
               old_handler, raised_in, guards>>

VARIABLES
    \* one DeepSeekAgent driven through several episodes by one runner
    session_entry,          \* "run_all_tasks" or "synthesize_all_tasks"
    session_tasks,          \* len(self.tasks)
    session_max_turns,      \* the max_turns argument
    session_task,           \* task_id of the episode in progress
    sepc,                   \* position in the driver
    session_turn,           \* turn_count of the episode
    session_done,           \* done of the episode
    observation,            \* the observation handed to the next act()
    tools_info,             \* agent.tools_info: the task whose tools it holds
    conversation_history,   \* agent._conversation_history
    kept_tool_calls,        \* agent._last_tool_calls
    first_messages,         \* what the first act() of the episode appended
    training_data           \* the conversation saved for the episode

sessionVars == <<session_entry, session_tasks, session_max_turns, session_task,
                 sepc, session_turn, session_done, observation, tools_info,
                 conversation_history, kept_tool_calls, first_messages,
                 training_data>>

vars == <<runnerVars, stepVars, deliveryVars, parseVars, workspaceVars, concurrentVars, formatVars, guardVars, sessionVars>>

\* what the runner's actions leave alone, what the environment's do, and
\* what the delivery paths do
nonRunnerVars == <<stepVars, deliveryVars, parseVars, workspaceVars, concurrentVars, formatVars, guardVars, sessionVars>>
nonStepVars == <<runnerVars, deliveryVars, parseVars, workspaceVars, concurrentVars, formatVars, guardVars, sessionVars>>
nonDeliveryVars == <<runnerVars, stepVars, parseVars, workspaceVars, concurrentVars, formatVars, guardVars, sessionVars>>
nonParseVars == <<runnerVars, stepVars, deliveryVars, workspaceVars, concurrentVars, formatVars, guardVars, sessionVars>>
nonWorkspaceVars == <<runnerVars, stepVars, deliveryVars, parseVars, concurrentVars, formatVars, guardVars, sessionVars>>
nonConcurrentVars == <<runnerVars, stepVars, deliveryVars, parseVars, workspaceVars, formatVars, guardVars, sessionVars>>
nonFormatVars == <<runnerVars, stepVars, deliveryVars, parseVars, workspaceVars, concurrentVars, guardVars, sessionVars>>
nonGuardVars == <<runnerVars, stepVars, deliveryVars, parseVars, workspaceVars, concurrentVars, formatVars, sessionVars>>
nonSessionVars == <<runnerVars, stepVars, deliveryVars, parseVars, workspaceVars, concurrentVars, formatVars, guardVars>>

\* ----------------------------------------------------------------- helpers
RECURSIVE SumSeq(_)
SumSeq(s) == IF s = <<>> THEN 0 ELSE Head(s) + SumSeq(Tail(s))

Last(s) == s[Len(s)]

NoSummary == [kind |-> "none", keys |-> {}, success |-> FALSE, total_turns |-> 0,
              total_reward |-> 0, completion_reason |-> "none"]

NoBatch == [total_tasks |-> 0 - 1, successful_tasks |-> 0, total_reward |-> 0,
            success_rate |-> <<0, 1>>, average_reward |-> <<0, 1>>,
            task_results |-> <<>>]

\* ===================================================================
\* Runner: runners/base_runner.py
\* ===================================================================

\* The (reward, done) pairs a step() of the three environment families returns:
\* tool-call turn, verified / unverified final answer, timeout, error.
StepReturns ==
    { <<0, FALSE>>, <<VerifiedReward, TRUE>>, <<0, TRUE>>,
      <<TimeoutPenalty, FALSE>>, <<ErrorPenalty, FALSE>> }

\* what NLPEnvironment.step returns when _call_env_llm raised on its last
\* attempt: the timeout triple for TimeoutError, the error triple otherwise
ExhaustedReturns == { <<TimeoutPenalty, FALSE>>, <<ErrorPenalty, FALSE>> }

Entry_Unnumbered(t, ty, r, d, tot) ==
    [turn |-> 0, type |-> ty, reward |-> r, done |-> d, total_reward |-> tot]

Entry(t, ty, r, d, tot) ==
    [turn |-> t, type |-> ty, reward |-> r, done |-> d, total_reward |-> tot]

LoopCondition_IgnoresDone == turn_count < max_turns

\* while not done and turn_count < max_turns
LoopCondition == ~done /\ turn_count < max_turns

Accumulate_Overwrites(total, reward) == reward

\* total_reward += reward
Accumulate(total, reward) == total + reward

Success_AtThreshold(d, total) == d /\ total >= SuccessThreshold

\* success = done and total_reward > 0.5
Success(d, total) == d /\ total > SuccessThreshold

\* _get_completion_reason
CompletionReason(success, turns, maxt) ==
    IF success THEN "success"
    ELSE IF turns >= maxt THEN "max_turns" ELSE "error"

\* log_data["summary"] of the normal exit
NormalSummary(d, total, turns, maxt) ==
    [kind |-> "summary",
     keys |-> {"success", "total_turns", "total_reward", "completion_reason"},
     success |-> Success(d, total), total_turns |-> turns, total_reward |-> total,
     completion_reason |-> CompletionReason(Success(d, total), turns, maxt)]

\* error_summary of the except Exception as main_error branch
ErrorSummary(total, turns) ==
    [kind |-> "error_summary",
     keys |-> {"success", "error", "total_turns", "total_reward"},
     success |-> FALSE, total_turns |-> turns, total_reward |-> total,
     completion_reason |-> "none"]

\* {"success": False, "error": str(e)} appended by run_all_tasks
BatchExceptResult ==
    [kind |-> "batch_except", keys |-> {"success", "error"},
     success |-> FALSE, total_turns |-> 0, total_reward |-> 0,
     completion_reason |-> "none"]

\* r.get("total_reward", 0)
GetTotalReward(r) == IF "total_reward" \in r.keys THEN r.total_reward ELSE 0

\* r.get("success", False)
GetSuccess(r) == IF "success" \in r.keys THEN r.success ELSE FALSE

CountSuccess_All(rs) == Len(rs)

\* sum(1 for r in results if r.get("success", False))
RECURSIVE CountSuccess(_)
CountSuccess(rs) ==
    IF rs = <<>> THEN 0
    ELSE (IF GetSuccess(Head(rs)) THEN 1 ELSE 0) + CountSuccess(Tail(rs))

RECURSIVE SumTotalReward(_)
SumTotalReward(rs) ==
    IF rs = <<>> THEN 0 ELSE GetTotalReward(Head(rs)) + SumTotalReward(Tail(rs))

\* x / len(self.tasks) if self.tasks else 0, as the fraction <<x, len>>; the
\* integer 0 is the fraction <<0, 1>>
Ratio(x, len) == IF len # 0 THEN <<x, len>> ELSE <<0, 1>>

\* The Environment classes the runners create: CommandLineRunner,
\* PythonRunner and NLPRunner each override _create_environment
EnvClasses == {"cmd", "py", "nlp"}

\* StaticEnvironment._load_task_data: current_task is set only when
\* 0 <= self.task_id < len(tasks); otherwise it stays None, without an error
TaskLoaded == 0 <= task_id /\ task_id < tasks_len

\* env.reset() returns an initial observation: CommandLineEnvironment.reset
\* falls back to a default query when current_task is None and otherwise
\* returns unless the setup script raises; the other two need a task
ResetCanReturn == env_class = "cmd" \/ TaskLoaded

\* env.reset() raises: "No task loaded" in PythonInterpreterEnvironment and
\* NLPEnvironment; with a task, the setup script of the command-line task
\* or the opening exchange with the proxy model
ResetCanRaise ==
    IF TaskLoaded THEN env_class \in {"cmd", "nlp"} ELSE env_class \in {"py", "nlp"}

RunnerStart ==
    /\ results = <<>>
    /\ batch_summary = NoBatch
    /\ turn_count = 0
    /\ total_reward = 0
    /\ done = FALSE
    /\ trajectory = <<>>
    /\ summary = NoSummary
    /\ env_state = "none"
    /\ step_calls = 0
    /\ cleanups = 0
    /\ api_requests = 0
    /\ act_outcome = "none"
    /\ proxy_exhausted = FALSE

\* no runner call is in progress
RunnerOff ==
    /\ entry = "none"
    /\ tasks_len = 0
    /\ max_turns = 0
    /\ task_id = 0
    /\ env_class = "none"
    /\ rpc = "off"
    /\ RunnerStart

\* a caller (eval/main_*.py with --task-id) invokes run_single_task(task_id)
SingleInit ==
    /\ entry = "run_single_task"
    /\ tasks_len \in 0..MaxTasks
    /\ max_turns \in 0..MaxTurns
    /\ task_id \in -1..MaxTasks
    /\ env_class \in EnvClasses
    /\ rpc = "enter"
    /\ RunnerStart

\* a caller invokes run_all_tasks()
BatchInit ==
    /\ entry = "run_all_tasks"
    /\ tasks_len \in 0..MaxTasks
    /\ max_turns \in 0..MaxBatchTurns
    /\ task_id = 0
    /\ env_class \in EnvClasses
    /\ rpc = "for_task"
    /\ RunnerStart

\* run_all_tasks: for task_id in range(len(self.tasks)): run_single_task(task_id)
ForTask ==
    /\ rpc = "for_task"
    /\ task_id < tasks_len
    /\ rpc' = "enter"
    /\ UNCHANGED nonRunnerVars
    /\ UNCHANGED env_class
    /\ UNCHANGED agentVars
    /\ UNCHANGED proxy_exhausted
    /\ UNCHANGED <<entry, tasks_len, max_turns, task_id, results, batch_summary,
                   turn_count, total_reward, done, trajectory, summary,
                   env_state, step_calls, cleanups>>

Propagate_AbortsBatch ==
    /\ rpc' = "raised"
    /\ UNCHANGED <<results, task_id>>

\* An exception leaves run_single_task: run_all_tasks' except appends the
\* two-key failure result and goes on; a direct caller sees it raised.
Propagate ==
    IF entry = "run_all_tasks"
    THEN /\ results' = Append(results, BatchExceptResult)
         /\ task_id' = task_id + 1
         /\ rpc' = "for_task"
    ELSE /\ rpc' = "raised"
         /\ UNCHANGED <<results, task_id>>

\* run_single_task up to its try: the range check (ValueError; a negative
\* id passes it), _create_environment (may raise: it loads the task file),
\* the initialisation of turn_count, total_reward, done, and
\* task_info = self.tasks[task_id] (IndexError below -len) for log_data.
RunSingleTask_Enter ==
    /\ rpc = "enter"
    /\ IF task_id >= tasks_len \/ task_id < -tasks_len
       THEN /\ Propagate
            /\ UNCHANGED <<turn_count, total_reward, done, trajectory,
                           summary, env_state, step_calls, cleanups>>
       ELSE \/ /\ rpc' = "reset"
               /\ turn_count' = 0
               /\ total_reward' = 0
               /\ done' = FALSE
               /\ trajectory' = <<>>
               /\ summary' = NoSummary
               /\ env_state' = "unreset"
               /\ step_calls' = 0
               /\ cleanups' = 0
               /\ UNCHANGED <<task_id, results>>
            \/ /\ Propagate
               /\ UNCHANGED <<turn_count, total_reward, done, trajectory,
                              summary, env_state, step_calls, cleanups>>
    /\ UNCHANGED nonRunnerVars
    /\ UNCHANGED env_class
    /\ UNCHANGED agentVars
    /\ UNCHANGED proxy_exhausted
    /\ UNCHANGED <<entry, tasks_len, max_turns, batch_summary>>

\* observation, tools = env.reset(), and the turn-0 trajectory entry;
\* reset raising is caught by except Exception as main_error.
Reset ==
    /\ rpc = "reset"
    /\ \/ /\ ResetCanReturn
          /\ env_state' = "ready"
          /\ trajectory' = Append(trajectory,
                                  Entry(0, "environment_response", 0, FALSE, 0))
          /\ rpc' = "while"
          /\ UNCHANGED summary
       \/ /\ ResetCanRaise
          /\ summary' = ErrorSummary(total_reward, turn_count)
          /\ rpc' = "finally"
          /\ UNCHANGED <<env_state, trajectory>>
    /\ UNCHANGED nonRunnerVars
    /\ UNCHANGED env_class
    /\ UNCHANGED agentVars
    /\ UNCHANGED proxy_exhausted
    /\ UNCHANGED <<entry, tasks_len, max_turns, task_id, results, batch_summary,
                   turn_count, total_reward, done, step_calls, cleanups>>

\* while not done and turn_count < max_turns: turn_count += 1
LoopHead ==
    /\ rpc = "while"
    /\ IF LoopCondition
       THEN /\ turn_count' = turn_count + 1
            /\ rpc' = "act"
       ELSE /\ rpc' = "summarize"
            /\ UNCHANGED turn_count
    /\ UNCHANGED nonRunnerVars
    /\ UNCHANGED env_class
    /\ UNCHANGED agentVars
    /\ UNCHANGED proxy_exhausted
    /\ UNCHANGED <<entry, tasks_len, max_turns, task_id, results, batch_summary,
                   total_reward, done, trajectory, summary, env_state,
                   step_calls, cleanups>>

TurnError_Continues ==
    /\ trajectory' = Append(trajectory, Entry(turn_count, "error", 0, FALSE, 0))
    /\ rpc' = "while"

\* except Exception as turn_error: one error entry, break
TurnError ==
    /\ trajectory' = Append(trajectory, Entry(turn_count, "error", 0, FALSE, 0))
    /\ rpc' = "summarize"

\* How a requests.post of _make_api_call can end: a response the agent turns
\* into an action, requests.exceptions.Timeout, another RequestException
\* (connection failure, HTTP error status), or a response the agent cannot
\* turn into an action
ApiOutcomes == {"ok", "timeout", "transport", "bad_response"}

\* _make_api_call: one requests.post; a RequestException becomes APIError
MakeApiCall(outcome) == outcome

\* action = self.agent.act(...) and the agent_action entry; act() makes one
\* _make_api_call, and whatever it raises is the turn's error
AgentAct ==
    /\ rpc = "act"
    /\ \E outcome \in ApiOutcomes :
          /\ api_requests' = 1
          /\ act_outcome' = MakeApiCall(outcome)
          /\ IF MakeApiCall(outcome) = "ok"
             THEN /\ trajectory' = Append(trajectory,
                                   Entry(turn_count, "agent_action", 0, FALSE, 0))
                  /\ rpc' = "step"
             ELSE TurnError
    /\ UNCHANGED nonRunnerVars
    /\ UNCHANGED env_class
    /\ UNCHANGED proxy_exhausted
    /\ UNCHANGED <<entry, tasks_len, max_turns, task_id, results, batch_summary,
                   turn_count, total_reward, done, summary, env_state,
                   step_calls, cleanups>>

\* next_observation, reward, done = env.step(action); total_reward += reward;
\* the environment_response entry
EnvStep ==
    /\ rpc = "step"
    /\ step_calls' = step_calls + 1
    /\ \/ \E ret \in StepReturns :
            /\ proxy_exhausted' \in IF ret \in ExhaustedReturns
                                    THEN BOOLEAN ELSE {FALSE}
            /\ total_reward' = Accumulate(total_reward, ret[1])
            /\ done' = ret[2]
            /\ env_state' = IF ret[2] THEN "done" ELSE env_state
            /\ trajectory' = Append(trajectory,
                   Entry(turn_count, "environment_response", ret[1], ret[2],
                         Accumulate(total_reward, ret[1])))
            /\ rpc' = "while"
       \/ /\ TurnError
          /\ proxy_exhausted' = FALSE
          /\ UNCHANGED <<total_reward, done, env_state>>
    /\ UNCHANGED nonRunnerVars
    /\ UNCHANGED env_class
    /\ UNCHANGED agentVars
    /\ UNCHANGED <<entry, tasks_len, max_turns, task_id, results, batch_summary,
                   turn_count, summary, cleanups>>

\* success, log_data["summary"], return log_data["summary"]
Summarize ==
    /\ rpc = "summarize"
    /\ summary' = NormalSummary(done, total_reward, turn_count, max_turns)
    /\ rpc' = "finally"
    /\ UNCHANGED nonRunnerVars
    /\ UNCHANGED env_class
    /\ UNCHANGED agentVars
    /\ UNCHANGED proxy_exhausted
    /\ UNCHANGED <<entry, tasks_len, max_turns, task_id, results, batch_summary,
                   turn_count, total_reward, done, trajectory, env_state,
                   step_calls, cleanups>>

\* finally: env.cleanup(), then the summary is returned; in run_all_tasks:
\* results.append(result)
Return ==
    /\ rpc = "finally"
    /\ cleanups' = cleanups + 1
    /\ env_state' = "cleaned"
    /\ IF entry = "run_all_tasks"
       THEN /\ results' = Append(results, summary)
            /\ task_id' = task_id + 1
            /\ rpc' = "for_task"
       ELSE /\ rpc' = "returned"
            /\ UNCHANGED <<results, task_id>>
    /\ UNCHANGED nonRunnerVars
    /\ UNCHANGED env_class
    /\ UNCHANGED agentVars
    /\ UNCHANGED proxy_exhausted
    /\ UNCHANGED <<entry, tasks_len, max_turns, batch_summary, turn_count,
                   total_reward, done, trajectory, summary, step_calls>>

\* run_all_tasks after the loop: the overall statistics
Finalize ==
    /\ rpc = "for_task"
    /\ task_id >= tasks_len
    /\ batch_summary' = [total_tasks |-> tasks_len,
                         successful_tasks |-> CountSuccess(results),
                         total_reward |-> SumTotalReward(results),
                         success_rate |-> Ratio(CountSuccess(results), tasks_len),
                         average_reward |-> Ratio(SumTotalReward(results), tasks_len),
                         task_results |-> results]
    /\ rpc' = "returned"
    /\ UNCHANGED nonRunnerVars
    /\ UNCHANGED env_class
    /\ UNCHANGED agentVars
    /\ UNCHANGED proxy_exhausted
    /\ UNCHANGED <<entry, tasks_len, max_turns, task_id, results, turn_count,
                   total_reward, done, trajectory, summary, env_state,
                   step_calls, cleanups>>

\* one run_single_task call
EpisodeNext ==
    \/ RunSingleTask_Enter
    \/ Reset
    \/ LoopHead
    \/ AgentAct
    \/ EnvStep
    \/ Summarize
    \/ Return

BatchNext ==
    \/ ForTask
    \/ EpisodeNext
    \/ Finalize

\* -------------------------------------------------------------------
\* Claims about the runner
\* -------------------------------------------------------------------

\* the environment_response entries of turns >= 1, in order
Responses == SelectSeq(trajectory,
                       LAMBDA e : e.type = "environment_response" /\ e.turn >= 1)

RewardsOf(rs) == [i \in 1..Len(rs) |-> rs[i].reward]

HasErrorEntry == \E i \in 1..Len(trajectory) : trajectory[i].type = "error"

\* the loop ended with done = true, as the trajectory shows it
EndedDone == Responses # <<>> /\ Last(Responses).done

Reported == rpc \in {"finally", "returned"} /\ summary.kind # "none"

\* C2: run_single_task reports success = true if and only if the episode's
\* last step returned done = true and the sum of the step rewards is strictly
\* greater than 0.5 (5 tenths); in particular rewards 0.0 then 1.0 with final
\* done give success, and a sum <= 0.5 gives failure whatever done is.
C2_SuccessIffDoneAndAboveThreshold ==
    Reported =>
        /\ summary.success <=>
               (EndedDone /\ SumSeq(RewardsOf(Responses)) > SuccessThreshold)
        /\ (RewardsOf(Responses) = <<0, VerifiedReward>> /\ EndedDone)
               => summary.success
        /\ SumSeq(RewardsOf(Responses)) <= SuccessThreshold => ~summary.success

\* an episode with rewards 0.0 then 1.0 has been summarised
C2_Witness ==
    /\ Reported
    /\ RewardsOf(Responses) = <<0, VerifiedReward>>
    /\ EndedDone
    /\ summary.success

\* C3: step() is called only on an environment whose reset() has returned
\* and none of whose steps has returned done = true, at most max_turns times
\* per episode; the done values observed are false except possibly the last.
C3_StepDiscipline ==
    /\ [][step_calls' = step_calls + 1 =>
              /\ env_state = "ready"
              /\ step_calls < max_turns]_vars
    /\ [](/\ step_calls <= max_turns
          /\ \A i \in 1..Len(Responses) :
                 Responses[i].done => i = Len(Responses))

\* max_turns steps were made and the last one returned done = true
C3_Witness ==
    /\ step_calls = max_turns
    /\ max_turns = MaxTurns
    /\ EndedDone
    /\ Len(Responses) = MaxTurns

\* C4: the total_reward recorded in every environment_response entry is the
\* sum of the rewards of that entry and all earlier ones, the runner's
\* total_reward is the sum over all completed steps, and so is the summary's.
C4_RunningSum ==
    /\ \A i \in 1..Len(Responses) :
           Responses[i].total_reward =
               SumSeq(RewardsOf(SubSeq(Responses, 1, i)))
    /\ total_reward = SumSeq(RewardsOf(Responses))
    /\ Reported => summary.total_reward = SumSeq(RewardsOf(Responses))

\* two steps with non-zero rewards have been summarised
C4_Witness ==
    /\ Reported
    /\ Len(Responses) = 2
    /\ Responses[1].reward # 0
    /\ Responses[2].reward # 0
    /\ summary.total_reward = Responses[1].reward + Responses[2].reward

\* C5: an exception of act() or step() in turn t appends exactly one error
\* entry for turn t and leaves the earlier entries and the accumulated reward
\* as they were; no further turn runs, nothing is re-raised, and the summary
\* returned is the normal one, with the reward accumulated before the error.
C5_TurnErrorIsContained ==
    /\ [][HasErrorEntry' /\ ~HasErrorEntry =>
              /\ Len(trajectory') = Len(trajectory) + 1
              /\ SubSeq(trajectory', 1, Len(trajectory)) = trajectory
              /\ Last(trajectory').type = "error"
              /\ Last(trajectory').turn = turn_count
              /\ total_reward' = total_reward]_vars
    /\ [][HasErrorEntry =>
              /\ trajectory' = trajectory
              /\ total_reward' = total_reward
              /\ turn_count' = turn_count
              /\ step_calls' = step_calls]_vars
    /\ [](HasErrorEntry =>
              /\ rpc \in {"summarize", "finally", "returned"}
              /\ Reported =>
                     /\ summary.kind = "summary"
                     /\ summary.total_turns = turn_count
                     /\ summary.total_reward = SumSeq(RewardsOf(Responses)))

\* a turn-2 error after a rewarded turn 1, summarised
C5_Witness ==
    /\ rpc = "returned"
    /\ HasErrorEntry
    /\ Last(trajectory).turn = 2
    /\ Len(Responses) = 1
    /\ summary.kind = "summary"
    /\ summary.total_reward = ErrorPenalty

\* the result run_all_tasks must hold for the episode that is ending, read
\* off that episode alone
EpisodeResult ==
    IF rpc = "enter" THEN BatchExceptResult
    ELSE IF env_state = "unreset" THEN ErrorSummary(0, 0)
    ELSE NormalSummary(EndedDone, SumSeq(RewardsOf(Responses)),
                       IF trajectory = <<>> THEN 0 ELSE Last(trajectory).turn,
                       max_turns)

\* C6: run_all_tasks never aborts: it appends exactly one result per task, in
\* task order, each decided by that task's episode alone, a failed reset
\* giving success = false, and it returns exactly len(tasks) results.
C6_BatchAlwaysCompletes ==
    /\ [][/\ Len(results') >= Len(results)
          /\ SubSeq(results', 1, Len(results)) = results
          /\ Len(results') # Len(results) =>
                 /\ Len(results') = Len(results) + 1
                 /\ task_id' = task_id + 1
                 /\ Last(results') = EpisodeResult
                 /\ env_state = "unreset" => ~Last(results').success]_vars
    /\ [](/\ rpc # "raised"
          /\ Len(results) = task_id
          /\ task_id <= tasks_len
          /\ rpc = "returned" =>
                 /\ Len(results) = tasks_len
                 /\ batch_summary.task_results = results)

\* three tasks, the second one's reset raised, the others succeeded
C6_Witness ==
    /\ rpc = "returned"
    /\ tasks_len = 3
    /\ Len(batch_summary.task_results) = 3
    /\ results[2].kind = "error_summary"
    /\ ~results[2].success
    /\ results[1].success
    /\ results[3].success

\* C31: the batch summary agrees with its task results: total_tasks is the
\* number of tasks, successful_tasks the number of results with success =
\* true (between 0 and total_tasks), total_reward the sum of the results'
\* total_reward with 0 for a result that has none, success_rate and
\* average_reward these two divided by total_tasks, and both 0 when there
\* are no tasks.
C31_BatchSummaryIsConsistent ==
    (rpc = "returned" /\ entry = "run_all_tasks") =>
        LET rs == batch_summary.task_results
            wins == {i \in 1..Len(rs) : "success" \in rs[i].keys /\ rs[i].success}
            rew == [i \in 1..Len(rs) |->
                       IF "total_reward" \in rs[i].keys THEN rs[i].total_reward
                                                         ELSE 0]
        IN /\ batch_summary.total_tasks = tasks_len
           /\ Len(rs) = tasks_len
           /\ batch_summary.successful_tasks = Cardinality(wins)
           /\ 0 <= batch_summary.successful_tasks
           /\ batch_summary.successful_tasks <= batch_summary.total_tasks
           /\ batch_summary.total_reward = SumSeq(rew)
           /\ IF tasks_len = 0
              THEN /\ batch_summary.success_rate = <<0, 1>>
                   /\ batch_summary.average_reward = <<0, 1>>
              ELSE /\ batch_summary.success_rate = <<Cardinality(wins), tasks_len>>
                   /\ batch_summary.average_reward = <<SumSeq(rew), tasks_len>>

\* three tasks: one succeeded, one failed in its reset, one raised before
\* its try block
C31_Witness ==
    /\ rpc = "returned"
    /\ entry = "run_all_tasks"
    /\ tasks_len = 3
    /\ batch_summary.successful_tasks = 1
    /\ \E i \in 1..3 : results[i].kind = "batch_except"
    /\ \E i \in 1..3 : results[i].kind = "error_summary"

\* C32: an episode whose last step returned the verified final answer
\* (reward 1.0, done = true) is reported with success = true, whatever
\* timeout or error penalties earlier turns of the episode collected.
C32_VerifiedAnswerIsSuccess ==
    (Reported /\ summary.kind = "summary" /\ EndedDone
              /\ Last(Responses).reward = VerifiedReward)
        => summary.success

\* C39: the summary's completion_reason names how the episode ended: it is
\* "success" exactly when success is true, "error" only when a turn raised
\* an exception, and "max_turns" only when the loop stopped because the
\* turn count reached max_turns without done.
C39_CompletionReasonNamesTheEnding ==
    (Reported /\ summary.kind = "summary")
        => /\ (summary.completion_reason = "success") <=> summary.success
           /\ summary.completion_reason = "error" => HasErrorEntry
           /\ summary.completion_reason = "max_turns"
                 => (~HasErrorEntry /\ ~EndedDone /\ turn_count = max_turns)

\* C9: the agent's request in act() goes through the bounded-retry
\* discipline too: a turn is not ended by a request timeout or a transport
\* failure of the agent's endpoint after a single request.
C9_AgentRequestIsRetried ==
    act_outcome \in {"timeout", "transport"} => api_requests > 1

\* C19: when a model endpoint's call has failed for good, the agent's in
\* act() or the proxy model's in step(), the episode ends at that turn with
\* an error entry and no later turn is run.
C19_EndpointFailureEndsEpisode ==
    (act_outcome \in {"timeout", "transport"} \/ proxy_exhausted)
        => /\ rpc \in {"summarize", "finally", "returned"}
           /\ trajectory # <<>>
           /\ Last(trajectory).type = "error"

\* the shape of the log: entry 1 is the turn-0 initial observation; from
\* entry 2 on the entries come in pairs per turn, entry 2t the agent_action
\* and entry 2t+1 the environment_response of turn t; an error entry takes
\* the place of either and is the last entry
OrderedLog ==
    trajectory # <<>> =>
        /\ trajectory[1].turn = 0
        /\ trajectory[1].type = "environment_response"
        /\ \A i \in 2..Len(trajectory) :
               /\ trajectory[i].turn = i \div 2
               /\ trajectory[i].type \in
                      IF i % 2 = 0 THEN {"agent_action", "error"}
                                   ELSE {"environment_response", "error"}
               /\ trajectory[i].type = "error" => i = Len(trajectory)

\* a log that ends with an error entry, with a response that has done =
\* true, or with the response of turn max_turns
TerminalLog ==
    /\ trajectory # <<>>
    /\ \/ Last(trajectory).type = "error"
       \/ /\ Last(trajectory).type = "environment_response"
          /\ Last(trajectory).done \/ Last(trajectory).turn = max_turns

\* C30: the trajectory is an ordered log: one turn-0 entry with the initial
\* observation first, then per completed turn t one agent_action entry
\* immediately followed by one environment_response entry, both numbered
\* t, with t counting up from 1; an error entry can only be the last entry;
\* and nothing is appended once a response has done = true or the turn
\* count has reached max_turns.
C30_TrajectoryIsOrderedLog ==
    /\ [](OrderedLog /\ (summary.kind = "summary" => trajectory # <<>>))
    /\ [][TerminalLog => trajectory' = trajectory]_vars

\* two completed turns, the second one the last the budget allows, have
\* been logged and the episode has returned
C30_Witness ==
    /\ rpc = "returned"
    /\ max_turns = 2
    /\ Len(trajectory) = 5
    /\ trajectory[4].type = "agent_action"
    /\ trajectory[5].type = "environment_response"
    /\ ~trajectory[5].done

\* C22: when reset cannot set the episode up because no task is loaded, the
\* failure is not absorbed into the episode: run_single_task returns the
\* failure summary (success false, the error text, zero turns, zero reward)
\* having run no agent turn and no step.
C22_ResetFailureIsNotAbsorbed ==
    (rpc = "returned" /\ entry = "run_single_task" /\ ~TaskLoaded)
        => /\ summary.kind = "error_summary"
           /\ "error" \in summary.keys
           /\ ~summary.success
           /\ summary.total_turns = 0
           /\ summary.total_reward = 0
           /\ api_requests = 0
           /\ step_calls = 0

\* C23: when the task record of the requested id is missing from the task
\* data (id outside 0..len-1, negative ids included), no Environment for
\* that id becomes ready, no initial observation is logged and no agent
\* turn is run.
C23_MissingTaskFailsBeforeReset ==
    ~TaskLoaded
        => /\ env_state \notin {"ready", "done"}
           /\ trajectory = <<>>
           /\ api_requests = 0

\* ===================================================================
\* Environment.step with its timeout guard, and the proxy-model client:
\* core/base.py timeout_context, envs/CommandLineEnvironment.py,
\* envs/PythonInterpreterEnvironment.py, envs/NLPEnvironment.py
\* ===================================================================

Families == {"cmd", "py", "nlp"}

\* one kind per tool call: a known function with usable arguments, an unknown
\* function name, arguments json.loads rejects, arguments lacking a key
CallKinds == {"ok", "unknown", "badjson", "missing"}

RECURSIVE SeqsUpTo(_, _)
SeqsUpTo(S, n) ==
    IF n = 0 THEN {<<>>}
    ELSE SeqsUpTo(S, n - 1) \cup
         {Append(q, x) : q \in {r \in SeqsUpTo(S, n - 1) : Len(r) = n - 1}, x \in S}

NoRet == [kind |-> "none", obs |-> "none", reward |-> 0, done |-> FALSE]

NoResponse == [type |-> "none", finished |-> FALSE, success |-> FALSE]

\* the dicts _parse_env_output can hand back: "type" and "content" are
\* present, "finished" and "success" are read with a False default
Responses_Env ==
    [type : {"nlp"}, finished : BOOLEAN, success : BOOLEAN] \cup
    { [type |-> "tool_response", finished |-> FALSE, success |-> FALSE],
      [type |-> "other", finished |-> FALSE, success |-> FALSE] }

\* how one request attempt can fail: requests.exceptions.Timeout, another
\* requests.exceptions.RequestException, an output _parse_env_output
\* rejects (no payload, payload without "type" or "content":
\* EnvironmentError), or anything else (a non-200 status)
Failures == {"timeout", "transport", "protocol", "other"}

StepOff ==
    /\ family = "none"
    /\ caller = "none"
    /\ act_calls = <<>>
    /\ task_verify = "absent"
    /\ spc = "off"
    /\ call_idx = 0
    /\ tool_results = <<>>
    /\ alarm = "unset"
    /\ step_ret = NoRet
    /\ max_retries = 0
    /\ attempt = 0
    /\ attempt_log = <<>>
    /\ sleeps = <<>>
    /\ response = NoResponse
    /\ history = <<>>

\* an environment that has been reset receives step(action), or an
\* NLPEnvironment receives reset()
StepInit ==
    /\ family \in Families
    /\ caller \in IF family = "nlp" THEN {"step", "reset"} ELSE {"step"}
    /\ act_calls \in IF family = "nlp" THEN {<<>>, <<"ok">>}
                     ELSE SeqsUpTo(CallKinds, MaxCalls)
    /\ task_verify \in IF family = "nlp" THEN {"absent"}
                       ELSE {"absent", "accept", "reject", "raises"}
    /\ max_retries \in IF family = "nlp" THEN 1..MaxRetries ELSE {0}
    /\ spc = "start"
    /\ call_idx = 0
    /\ tool_results = <<>>
    /\ alarm = "unset"
    /\ step_ret = NoRet
    /\ attempt = 0
    /\ attempt_log = <<>>
    /\ sleeps = <<>>
    /\ response = NoResponse
    /\ history = IF caller = "step" /\ family = "nlp" THEN <<"Environment">> ELSE <<>>

\* finally: signal.alarm(0) of timeout_context, on every way out of the block
Disarm(a) == IF a = "armed" THEN "cancelled" ELSE a

\* the method hands back its result
Ret(kind, obs, reward, d) ==
    /\ step_ret' = [kind |-> kind, obs |-> obs, reward |-> reward, done |-> d]
    /\ spc' = "returned"

\* step() hands back a triple, leaving the with block on the way
StepReturn(kind, obs, reward, d) ==
    /\ Ret(kind, obs, reward, d)
    /\ alarm' = Disarm(alarm)

\* except TimeoutError as e: return f"Timeout error: ...", -0.5, False
ReturnTimeout == StepReturn("timeout", "timeout_message", TimeoutPenalty, FALSE)

\* except Exception as e: return f"... error: ...", -0.1, False
ReturnError == StepReturn("error", "error_message", ErrorPenalty, FALSE)

\* an exception leaves reset(), which has no handler of its own
ResetRaises ==
    /\ step_ret' = [kind |-> "raised", obs |-> "none", reward |-> 0, done |-> FALSE]
    /\ spc' = "raised"
    /\ alarm' = alarm

\* _is_tool_call
IsToolCall(calls) == calls # <<>>

\* with timeout_context(timeout): the handler is installed, the alarm armed
StepEnter ==
    /\ spc = "start"
    /\ caller = "step"
    /\ alarm' = "armed"
    /\ spc' = IF family = "nlp" THEN "prepare" ELSE "classify"
    /\ UNCHANGED <<family, caller, act_calls, task_verify, call_idx, tool_results,
                   step_ret, max_retries, attempt, attempt_log, sleeps,
                   response, history>>
    /\ UNCHANGED nonStepVars

\* if self._is_tool_call(action): ... else: ...
Classify ==
    /\ spc = "classify"
    /\ IF IsToolCall(act_calls)
       THEN spc' = "dispatch" /\ call_idx' = 1
       ELSE spc' = "evaluate" /\ UNCHANGED call_idx
    /\ UNCHANGED <<family, caller, act_calls, task_verify, tool_results, alarm,
                   step_ret, max_retries, attempt, attempt_log, sleeps,
                   response, history>>
    /\ UNCHANGED nonStepVars

\* one iteration of the for loop of _execute_tool_call up to the tool itself:
\* the name, json.loads(arguments), the dispatch on the name and the
\* arguments[...] lookups. CommandLineEnvironment lets every failure here
\* reach step's except Exception; PythonInterpreterEnvironment appends an
\* error string for an unknown name and turns the other failures into the
\* string its own except Exception returns.
Dispatch ==
    /\ spc = "dispatch"
    /\ call_idx <= Len(act_calls)
    /\ LET k == act_calls[call_idx] IN
       CASE k = "ok" ->
              /\ spc' = "in_tool"
              /\ UNCHANGED <<call_idx, tool_results, step_ret, alarm>>
         [] k = "unknown" /\ family = "py" ->
              /\ tool_results' = Append(tool_results, "unknown_function")
              /\ call_idx' = call_idx + 1
              /\ UNCHANGED <<spc, step_ret, alarm>>
         [] k # "ok" /\ family = "py" /\ k # "unknown" ->
              /\ StepReturn("normal", "tool_execution_error", 0, FALSE)
              /\ UNCHANGED <<call_idx, tool_results>>
         [] OTHER ->
              /\ ReturnError
              /\ UNCHANGED <<call_idx, tool_results>>
    /\ UNCHANGED <<family, caller, act_calls, task_verify, max_retries, attempt,
                   attempt_log, sleeps, response, history>>
    /\ UNCHANGED nonStepVars

\* the tool function itself (_read_file, _execute_shell, _run_python_code, ...):
\* its body is a try whose except Exception returns an error string
ToolRuns ==
    /\ spc = "in_tool"
    /\ \E r \in {"result", "tool_error"} :
           tool_results' = Append(tool_results, r)
    /\ call_idx' = call_idx + 1
    /\ spc' = "dispatch"
    /\ UNCHANGED <<family, caller, act_calls, task_verify, alarm, step_ret,
                   max_retries, attempt, attempt_log, sleeps, response, history>>
    /\ UNCHANGED nonStepVars

\* the loop is over: return "\n".join(results); reward = 0.0; done = False
ToolsReturn ==
    /\ spc = "dispatch"
    /\ call_idx > Len(act_calls)
    /\ StepReturn("normal", "tool_results", 0, FALSE)
    /\ UNCHANGED <<family, caller, act_calls, task_verify, call_idx, tool_results,
                   max_retries, attempt, attempt_log, sleeps, response, history>>
    /\ UNCHANGED nonStepVars

\* observation = self._evaluate_final_answer(action)
Evaluate ==
    /\ spc = "evaluate"
    /\ spc' = "verify"
    /\ UNCHANGED <<family, caller, act_calls, task_verify, call_idx, tool_results,
                   alarm, step_ret, max_retries, attempt, attempt_log, sleeps,
                   response, history>>
    /\ UNCHANGED nonStepVars

\* _verify_task_completion: CommandLineEnvironment runs the script inside
\* try/except Exception: return False; PythonInterpreterEnvironment calls
\* verify_answer with no handler, so a raising parser reaches step's except
Verified(fam, tv) == tv = "accept"

\* reward = 1.0 if self._verify_task_completion(...) else 0.0; done = True
Verify ==
    /\ spc = "verify"
    /\ IF task_verify = "raises" /\ family = "py"
       THEN ReturnError
       ELSE StepReturn("normal", "final_answer",
                       IF Verified(family, task_verify) THEN VerifiedReward ELSE 0,
                       TRUE)
    /\ UNCHANGED <<family, caller, act_calls, task_verify, call_idx, tool_results,
                   max_retries, attempt, attempt_log, sleeps, response, history>>
    /\ UNCHANGED nonStepVars

\* ---------------------------------------------------- NLPEnvironment

Backoff_Linear(a) == 2 * a

\* time.sleep(2 ** attempt)
Backoff(a) == 2 ^ a

LastAttempt_OneMore(a, k) == a = k

\* if attempt == max_retries - 1: raise ...
LastAttempt(a, k) == a = k - 1

\* reset(): self.current_turn = 0; self.history = []; the opening query
ResetEnter ==
    /\ spc = "start"
    /\ caller = "reset"
    /\ history' = <<>>
    /\ attempt' = 0
    /\ spc' = "request"
    /\ UNCHANGED <<family, caller, act_calls, task_verify, call_idx, tool_results,
                   alarm, step_ret, max_retries, attempt_log, sleeps, response>>
    /\ UNCHANGED nonStepVars

\* step(): current_turn += 1, _format_agent_input, _validate_action,
\* self.history.append(f"Agent: ..."), _build_query; _call_env_llm begins
Prepare ==
    /\ spc = "prepare"
    /\ history' = Append(history, "Agent")
    /\ attempt' = 0
    /\ spc' = "request"
    /\ UNCHANGED <<family, caller, act_calls, task_verify, call_idx, tool_results,
                   alarm, step_ret, max_retries, attempt_log, sleeps, response>>
    /\ UNCHANGED nonStepVars

\* the raise of the last attempt: TimeoutError after a request timeout,
\* EnvironmentError otherwise. step's except TimeoutError answers the first
\* with the timeout triple, its except Exception the second with the error
\* triple; reset has no handler.
CallEnvLlmRaises(f) ==
    IF caller = "reset" THEN ResetRaises
    ELSE IF f = "timeout" THEN ReturnTimeout
    ELSE ReturnError

\* one pass of "for attempt in range(max_retries)": the request
\* (_stream_request / _non_stream_request, parse included) and, when it
\* fails, the matching except clause up to its time.sleep
Request ==
    /\ spc = "request"
    /\ attempt < max_retries
    /\ \/ \E r \in Responses_Env :
            /\ response' = r
            /\ attempt_log' = Append(attempt_log, "ok")
            /\ spc' = IF caller = "step" THEN "process" ELSE "reset_check"
            /\ UNCHANGED <<step_ret, alarm>>
       \/ \E f \in Failures :
            /\ attempt_log' = Append(attempt_log, f)
            /\ IF LastAttempt(attempt, max_retries)
               THEN CallEnvLlmRaises(f)
               ELSE spc' = "sleep" /\ UNCHANGED <<step_ret, alarm>>
            /\ UNCHANGED response
    /\ UNCHANGED <<family, caller, act_calls, task_verify, call_idx, tool_results,
                   max_retries, attempt, sleeps, history>>
    /\ UNCHANGED nonStepVars

\* time.sleep(2 ** attempt), then the next pass of the loop; a loop that
\* runs out of passes falls off the end of _call_env_llm, which then returns
\* None: step's _process_env_response(None) and reset's None["type"] raise
\* TypeError
Sleep ==
    /\ spc = "sleep"
    /\ sleeps' = Append(sleeps, Backoff(attempt))
    /\ attempt' = attempt + 1
    /\ IF attempt + 1 < max_retries
       THEN spc' = "request" /\ UNCHANGED <<step_ret, alarm>>
       ELSE IF caller = "reset" THEN ResetRaises ELSE ReturnError
    /\ UNCHANGED <<family, caller, act_calls, task_verify, call_idx, tool_results,
                   max_retries, attempt_log, response, history>>
    /\ UNCHANGED nonStepVars

\* _process_env_response with done decided by success as well
NlpDone_OnSuccess(resp) == resp.finished \/ resp.success

\* finished = response.get("finished", False); if finished: ... done = True
NlpDone(resp) == resp.finished

\* _process_env_response
Process ==
    /\ spc = "process"
    /\ CASE response.type = "nlp" ->
              /\ history' = Append(history, "Environment")
              /\ IF NlpDone(response)
                 THEN StepReturn("normal", "content",
                                 IF response.success THEN VerifiedReward ELSE 0,
                                 TRUE)
                 ELSE StepReturn("normal", "content", 0, FALSE)
         [] response.type = "tool_response" ->
              /\ history' = Append(history, "Tool Result")
              /\ StepReturn("normal", "content", 0, FALSE)
         [] OTHER ->
              /\ ReturnError
              /\ UNCHANGED history
    /\ UNCHANGED <<family, caller, act_calls, task_verify, call_idx, tool_results,
                   max_retries, attempt, attempt_log, sleeps, response>>
    /\ UNCHANGED nonStepVars

\* reset(): if initial_response["type"] == "nlp": ... else: raise
ResetCheck ==
    /\ spc = "reset_check"
    /\ IF response.type = "nlp"
       THEN /\ history' = Append(history, "Environment")
            /\ Ret("reset_ok", "content", 0, FALSE)
            /\ UNCHANGED alarm
       ELSE /\ ResetRaises
            /\ UNCHANGED history
    /\ UNCHANGED <<family, caller, act_calls, task_verify, call_idx, tool_results,
                   max_retries, attempt, attempt_log, sleeps, response>>
    /\ UNCHANGED nonStepVars

\* ---------------------------------------------------- the guard fires

\* where the alarm can find the step: inside the with block
Guarded == {"classify", "dispatch", "in_tool", "evaluate", "verify",
            "prepare", "request", "sleep", "process"}

GuardCaughtBy_StepOnly(fam, pos, tv) == "step_timeout"

\* The handler raises core.base.TimeoutError (a subclass of the builtin
\* EnvironmentError, so of Exception) at the instruction being executed; the
\* innermost enclosing try with a matching except gets it:
\*   the tool functions' except Exception (both tool environments),
\*   _execute_tool_call's except Exception (PythonInterpreterEnvironment),
\*   _verify_task_completion's except Exception (CommandLineEnvironment),
\*   _call_env_llm's except Exception (NLPEnvironment),
\*   and otherwise step's except TimeoutError.
GuardCaughtBy(fam, pos, tv) ==
    CASE pos = "in_tool" -> "tool_except"
      [] pos = "dispatch" /\ fam = "py" -> "execute_except"
      [] pos = "verify" /\ fam = "cmd" /\ tv # "absent" -> "verify_except"
      [] pos = "request" -> "llm_except"
      [] OTHER -> "step_timeout"

\* SIGALRM is delivered while the step is still inside the with block
GuardFires ==
    /\ alarm = "armed"
    /\ spc \in Guarded
    /\ alarm' = "fired"
    /\ LET c == GuardCaughtBy(family, spc, task_verify) IN
       CASE c = "tool_except" ->
              /\ tool_results' = Append(tool_results, "timeout_text")
              /\ call_idx' = call_idx + 1
              /\ spc' = "dispatch"
              /\ UNCHANGED <<step_ret, attempt_log>>
         [] c = "execute_except" ->
              /\ Ret("normal", "tool_execution_error", 0, FALSE)
              /\ UNCHANGED <<tool_results, call_idx, attempt_log>>
         [] c = "verify_except" ->
              /\ Ret("normal", "final_answer", 0, TRUE)
              /\ UNCHANGED <<tool_results, call_idx, attempt_log>>
         [] c = "llm_except" ->
              /\ attempt_log' = Append(attempt_log, "guard")
              /\ IF LastAttempt(attempt, max_retries)
                 THEN Ret("error", "error_message", ErrorPenalty, FALSE)
                 ELSE spc' = "sleep" /\ UNCHANGED step_ret
              /\ UNCHANGED <<tool_results, call_idx>>
         [] OTHER ->
              /\ Ret("timeout", "timeout_message", TimeoutPenalty, FALSE)
              /\ UNCHANGED <<tool_results, call_idx, attempt_log>>
    /\ UNCHANGED <<family, caller, act_calls, task_verify, max_retries, attempt,
                   sleeps, response, history>>
    /\ UNCHANGED nonStepVars

StepNext ==
    \/ StepEnter
    \/ Classify
    \/ Dispatch
    \/ ToolRuns
    \/ ToolsReturn
    \/ Evaluate
    \/ Verify
    \/ ResetEnter
    \/ Prepare
    \/ Request
    \/ Sleep
    \/ Process
    \/ ResetCheck
    \/ GuardFires

\* -------------------------------------------------------------------
\* Claims about step(), the guard and the proxy-model client
\* -------------------------------------------------------------------

StepFinished == spc \in {"returned", "raised"}

TimeoutTriple == [kind |-> "timeout", obs |-> "timeout_message",
                  reward |-> TimeoutPenalty, done |-> FALSE]

\* C1: in every environment family, a step() whose timeout guard fired,
\* wherever inside the step, returns the timeout message with reward -0.5
\* and done = false, and step() never raises.
C1_GuardFiredGivesTimeoutTriple ==
    /\ caller = "step" => spc # "raised"
    /\ (caller = "step" /\ spc = "returned" /\ alarm = "fired")
           => step_ret = TimeoutTriple

\* C7: when the endpoint fails f < K times by request timeout or transport
\* failure and then answers, _call_env_llm returns that answer after exactly
\* f + 1 requests and f sleeps of 1, 2, ..., 2^(f-1) seconds, in that order.
C7_ReturnsAfterExactBackoff ==
    (/\ attempt_log # <<>>
     /\ Last(attempt_log) = "ok"
     /\ \A i \in 1..Len(attempt_log) - 1 :
            attempt_log[i] \in {"timeout", "transport"})
    => /\ Len(attempt_log) - 1 < max_retries
       /\ attempt = Len(attempt_log) - 1
       /\ spc \notin {"request", "sleep"}
       /\ response # NoResponse
       /\ sleeps = [i \in 1..Len(attempt_log) - 1 |-> 2 ^ (i - 1)]

\* K = 3, two failures, then the answer: two sleeps, of 1 and 2 seconds
C7_Witness ==
    /\ max_retries = 3
    /\ attempt_log = <<"timeout", "transport", "ok">>
    /\ sleeps = <<1, 2>>
    /\ response.type = "nlp"
    /\ spc = "returned"
    /\ step_ret.kind = "normal"

AllFailed(log) == \A i \in 1..Len(log) : log[i] # "ok"

C8_Bounded ==
    /\ Len(attempt_log) <= max_retries
    /\ Len(sleeps) <= Len(attempt_log)
    /\ (family = "nlp" /\ Len(attempt_log) = max_retries /\ AllFailed(attempt_log))
       => /\ StepFinished
          /\ Len(sleeps) = max_retries - 1
          /\ response = NoResponse
          /\ step_ret.kind \in {"timeout", "error", "raised"}

\* C8: one _call_env_llm call makes at most K requests; when all K fail it
\* has slept exactly K - 1 times, none after the last attempt, hands back no
\* response and ends in its terminal error; and every call comes to an end.
C8_BoundedAttemptsThenRaise == []C8_Bounded /\ <>StepFinished

\* three attempts, all failed, two sleeps, the terminal error out of reset
C8_Witness ==
    /\ max_retries = 3
    /\ Len(attempt_log) = 3
    /\ AllFailed(attempt_log)
    /\ sleeps = <<1, 2>>
    /\ caller = "reset"
    /\ spc = "raised"

\* a step() of the command-line or Python family that came back without
\* its guard firing
StepCompleted ==
    /\ caller = "step"
    /\ family \in {"cmd", "py"}
    /\ spc = "returned"
    /\ alarm # "fired"

\* C14: in the command-line and Python families a step with a non-empty
\* tool_calls list that completes within the timeout returns reward 0 and
\* done = false, whatever the individual calls do.
C14_ToolCallStepIsNeutral ==
    (StepCompleted /\ act_calls # <<>>)
        => (step_ret.reward = 0 /\ ~step_ret.done)

\* C15: in the command-line and Python families a final-answer step returns
\* done = true, with reward 1.0 when the verification accepts and 0.0
\* otherwise; never done = false, never another reward.
C15_FinalAnswerEndsEpisode ==
    (StepCompleted /\ act_calls = <<>>)
        => /\ step_ret.done
           /\ step_ret.reward = IF task_verify = "accept" THEN VerifiedReward ELSE 0

\* C16: when the verification cannot run (no script, no gold answer) or
\* raises, the final-answer step returns reward 0.0 with done = true: no
\* exception leaves step and no error penalty is applied.
C16_FailedVerificationIsNotVerified ==
    (StepCompleted /\ act_calls = <<>> /\ task_verify \in {"absent", "raises"})
        => /\ step_ret.kind = "normal"
           /\ step_ret.reward = 0
           /\ step_ret.done

\* C17: in the dialogue environment the parsed output decides the result of
\* a step that processed it: "tool_response" gives reward 0 and done =
\* false; "nlp" gives done exactly when finished, reward 1.0 when success
\* as well and 0.0 otherwise, and (0, false) when not finished even if
\* success is true.
C17_ParsedOutputDecides ==
    (family = "nlp" /\ caller = "step" /\ spc = "returned"
        /\ response.type \in {"nlp", "tool_response"} /\ alarm # "fired")
    => /\ step_ret.kind = "normal"
       /\ step_ret.obs = "content"
       /\ step_ret.done = (response.type = "nlp" /\ response.finished)
       /\ step_ret.reward = IF response.type = "nlp" /\ response.finished
                               /\ response.success
                            THEN VerifiedReward ELSE 0

\* success without finished: the dialogue goes on, reward 0
C17_Witness ==
    /\ family = "nlp"
    /\ caller = "step"
    /\ spc = "returned"
    /\ response = [type |-> "nlp", finished |-> FALSE, success |-> TRUE]
    /\ step_ret = [kind |-> "normal", obs |-> "content", reward |-> 0,
                   done |-> FALSE]

ProtocolViolated == \E i \in 1..Len(attempt_log) : attempt_log[i] = "protocol"

\* C18: a proxy-model output without parseable payload, or without "type"
\* or "content", makes the dialogue step fail hard: step does not come
\* back with a done = false triple after which the runner runs further
\* turns of the episode.
C18_ProtocolViolationIsHard ==
    (family = "nlp" /\ caller = "step" /\ spc = "returned" /\ ProtocolViolated)
        => step_ret.done

\* the guard fired while a proxy-model request was in flight
GuardFiredInRequest == \E i \in 1..Len(attempt_log) : attempt_log[i] = "guard"

\* C34: in the dialogue environment, once the step's timeout guard has fired
\* during a proxy-model request the step is abandoned: from then on the
\* step makes no backoff sleep and no further request attempt.
C34_GuardAbandonsStep ==
    [][(family = "nlp" /\ caller = "step" /\ alarm = "fired" /\ GuardFiredInRequest)
          => (sleeps' = sleeps /\ attempt_log' = attempt_log)]_vars

\* C35: a dialogue step returns the timeout outcome (timeout message,
\* reward -0.5) only if its own timeout guard fired; request timeouts that
\* exhaust the retries are reported with the generic error outcome.
C35_TimeoutOutcomeOnlyFromGuard ==
    (family = "nlp" /\ caller = "step" /\ spc = "returned"
        /\ (step_ret.kind = "timeout" \/ step_ret.reward = TimeoutPenalty))
    => alarm = "fired"

\* C36: a proxy-model response that arrived but violates the protocol is
\* surfaced after that single attempt: it is the last entry of the attempt
\* log, and no backoff sleep follows it.
C36_ProtocolViolationIsNotRetried ==
    family = "nlp" =>
        \A i \in 1..Len(attempt_log) :
            attempt_log[i] = "protocol"
                => (i = Len(attempt_log) /\ Len(sleeps) < i /\ spc # "sleep")

\* every "Agent" entry is followed by exactly one "Environment" or
\* "Tool Result" entry before the next "Agent" entry
EveryAgentAnswered(h) ==
    \A i \in 1..Len(h) :
        h[i] = "Agent"
            => /\ i < Len(h)
               /\ h[i + 1] \in {"Environment", "Tool Result"}
               /\ (i + 2 <= Len(h) => h[i + 2] = "Agent")

\* C37: the dialogue environment's history has exactly one "Environment"
\* entry after reset, and after a step, failed or timed out included, no
\* "Agent" entry is left without its answer.
C37_HistoryHasNoUnansweredAgent ==
    (family = "nlp" /\ spc = "returned")
        => IF caller = "reset" THEN history = <<"Environment">>
           ELSE EveryAgentAnswered(history)

Malformed(k) == k \in {"badjson", "missing"}

\* C20: when one call of a batch of tool calls has malformed arguments, the
\* step does not fail as a whole: every other call is executed and the
\* observation holds the results of all calls, the error string of the
\* malformed one among them.
C20_MalformedCallIsIsolated ==
    (StepCompleted /\ Len(act_calls) > 1
        /\ Cardinality({i \in 1..Len(act_calls) : Malformed(act_calls[i])}) = 1)
    => /\ step_ret.kind = "normal"
       /\ step_ret.obs = "tool_results"
       /\ Len(tool_results) = Len(act_calls)

\* -------------------------------------------------------------------
\* Delivery of one completion: _stream_request / _non_stream_request of
\* NLPEnvironment, _handle_stream_response / response.json() of the agent
\* -------------------------------------------------------------------

\* A message content is a sequence of symbols:
\*   "O" the text <output>           "C" the text </output>
\*   "J" a flat JSON object with the keys "type" and "content"
\*   "X" a flat JSON object without the key "type"
\*   "T" any other text
Symbols == {"O", "J", "X", "C", "T"}

IsObject(x) == x \in {"J", "X"}
HasType(x) == x = "J"

NoResult == [kind |-> "none", val |-> <<>>]
Raised(why) == [kind |-> "error", val |-> <<why>>]

Min(a, b) == IF a < b THEN a ELSE b

\* re.search(r'<output>\s*(\{.*?\})\s*</output>', content, re.DOTALL): the
\* pairs <<i, j>> such that the pattern matches from the <output> at i with
\* the group ending at the object at j
PrimaryMatches(s) ==
    {m \in (1..Len(s)) \X (1..Len(s)) :
        /\ s[m[1]] = "O"
        /\ m[1] + 1 <= m[2]
        /\ m[2] + 1 <= Len(s)
        /\ IsObject(s[m[1] + 1])
        /\ IsObject(s[m[2]])
        /\ s[m[2] + 1] = "C"}

\* the match re.search reports: leftmost start, and from there the lazy
\* quantifier's shortest group
PrimaryMatch(s) ==
    CHOOSE m \in PrimaryMatches(s) :
        \A n \in PrimaryMatches(s) :
            m[1] < n[1] \/ (m[1] = n[1] /\ m[2] <= n[2])

\* re.search(r'\{[^{}]*"type"[^{}]*\}', content, re.DOTALL): the positions
\* of the flat objects that hold "type"
FallbackMatches(s) == {i \in 1..Len(s) : HasType(s[i])}

\* json.loads(json_str) and the two field checks
LoadOutput(json_str) ==
    IF Len(json_str) # 1 THEN Raised("invalid_json")
    ELSE IF ~HasType(json_str[1]) THEN Raised("missing_type")
    ELSE [kind |-> "output", val |-> json_str]

\* _parse_env_output(content)
ParseEnvOutput(s) ==
    IF PrimaryMatches(s) # {}
    THEN LoadOutput(SubSeq(s, PrimaryMatch(s)[1] + 1, PrimaryMatch(s)[2]))
    ELSE IF FallbackMatches(s) # {}
    THEN LoadOutput(<<s[CHOOSE i \in FallbackMatches(s) :
                          \A k \in FallbackMatches(s) : i <= k]>>)
    ELSE Raised("invalid_format")

\* The lines the endpoint can put on the stream next:
\*   "delta"        data: a chunk whose delta holds the next piece of content
\*   "blank"        an empty line
\*   "comment"      a line that does not start with "data: "
\*   "no_content"   data: a chunk with no choices or no "content" in its delta
\*   "null_content" data: a chunk whose delta holds "content": null
\*   "malformed"    data: something json.loads rejects, a piece of content in it
\*   "done"         data: [DONE]
\*   "close"        the transport closes, iter_lines ends
ServerLines ==
    {[kind |-> k, frag |-> <<>>] :
        k \in {"blank", "comment", "no_content", "null_content", "close"}}
    \cup {[kind |-> "delta", frag |-> SubSeq(content, sent + 1, sent + n)] :
             n \in 0..Min(MaxFragLen, Len(content) - sent)}
    \cup {[kind |-> "malformed", frag |-> SubSeq(content, sent + 1, sent + n)] :
             n \in 1..Min(MaxFragLen, Len(content) - sent)}
    \cup (IF sent = Len(content) THEN {[kind |-> "done", frag |-> <<>>]} ELSE {})

\* content_buffer += delta['content'] / full_content += delta['content']
AppendDelta(buf, line) == buf \o line.frag

\* the endpoint's side of a line: what it has sent, and whether the stream
\* still is a well-formed one ended by its marker
ServerSide(line) ==
    /\ sent' = sent + Len(line.frag)
    /\ conforming' = (conforming /\ line.kind \notin {"malformed", "close"})
    /\ well_formed' = IF line.kind = "delta" THEN well_formed \o line.frag
                                              ELSE well_formed

DeliveryOff ==
    /\ client = "off"
    /\ content = <<>>
    /\ sent = 0
    /\ conforming = TRUE
    /\ well_formed = <<>>
    /\ content_buffer = <<>>
    /\ dpc = "off"
    /\ stream_result = NoResult
    /\ single_result = NoResult

\* One completion is requested both ways: content_buffer = "" / full_content = ""
DeliveryInit ==
    /\ client \in {"nlp", "agent"}
    /\ content \in SeqsUpTo(Symbols, MaxContentLen)
    /\ sent = 0
    /\ conforming = TRUE
    /\ well_formed = <<>>
    /\ content_buffer = <<>>
    /\ dpc = "lines"
    /\ stream_result = NoResult
    /\ single_result = NoResult

\* _stream_request: one pass of "for line in response.iter_lines(...)", and,
\* once the loop is left, return self._parse_env_output(content_buffer)
StreamRequest ==
    /\ client = "nlp"
    /\ dpc = "lines"
    /\ \E line \in ServerLines :
          /\ ServerSide(line)
          /\ CASE line.kind = "delta" ->
                    /\ content_buffer' = AppendDelta(content_buffer, line)
                    /\ UNCHANGED <<dpc, stream_result>>
               [] line.kind = "null_content" ->
                    /\ stream_result' = Raised("TypeError")
                    /\ dpc' = "finished"
                    /\ UNCHANGED content_buffer
               [] line.kind \in {"done", "close"} ->
                    /\ stream_result' = ParseEnvOutput(content_buffer)
                    /\ dpc' = "finished"
                    /\ UNCHANGED content_buffer
               [] OTHER -> UNCHANGED <<content_buffer, dpc, stream_result>>
    /\ UNCHANGED <<client, content, single_result>>
    /\ UNCHANGED nonDeliveryVars

\* _non_stream_request: result['choices'][0]['message']['content'], parsed
NonStreamRequest ==
    /\ client = "nlp"
    /\ single_result = NoResult
    /\ single_result' = ParseEnvOutput(content)
    /\ UNCHANGED <<client, content, sent, conforming, well_formed,
                   content_buffer, dpc, stream_result>>
    /\ UNCHANGED nonDeliveryVars

\* _handle_stream_response: one pass of "for line in response.iter_lines()",
\* and, once the loop is left, the message built around full_content
HandleStreamResponse ==
    /\ client = "agent"
    /\ dpc = "lines"
    /\ \E line \in ServerLines :
          /\ ServerSide(line)
          /\ CASE line.kind = "delta" ->
                    /\ content_buffer' = AppendDelta(content_buffer, line)
                    /\ UNCHANGED <<dpc, stream_result>>
               [] line.kind = "null_content" ->
                    /\ stream_result' = Raised("TypeError")
                    /\ dpc' = "finished"
                    /\ UNCHANGED content_buffer
               [] line.kind \in {"done", "close"} ->
                    /\ stream_result' = [kind |-> "message", val |-> content_buffer]
                    /\ dpc' = "finished"
                    /\ UNCHANGED content_buffer
               [] OTHER -> UNCHANGED <<content_buffer, dpc, stream_result>>
    /\ UNCHANGED <<client, content, single_result>>
    /\ UNCHANGED nonDeliveryVars

\* _make_api_call with stream=False: return response.json()
MakeApiCallJson ==
    /\ client = "agent"
    /\ single_result = NoResult
    /\ single_result' = [kind |-> "message", val |-> content]
    /\ UNCHANGED <<client, content, sent, conforming, well_formed,
                   content_buffer, dpc, stream_result>>
    /\ UNCHANGED nonDeliveryVars

DeliveryNext ==
    \/ StreamRequest
    \/ NonStreamRequest
    \/ HandleStreamResponse
    \/ MakeApiCallJson

BothDelivered == dpc = "finished" /\ single_result # NoResult

\* C10: for any message content and any split of it into well-formed
\* streamed fragments ended by the end marker, the streaming path hands back
\* the same completed message (in the dialogue environment: the same parsed
\* output) as the single-shot path given the whole content in one body.
C10_DeliveryModesAgree ==
    (BothDelivered /\ conforming) => stream_result = single_result

\* -------------------------------------------------------------------
\* DeepSeekAgent._parse_tool_calls / _convert_response_to_action, and the
\* json.loads of the arguments in the environments' _execute_tool_call
\* -------------------------------------------------------------------

\* JSON values: atoms, and objects of atoms with their keys in order
Atom(t, str) == [t |-> t, s |-> str, m |-> <<>>]
Atoms == {Atom("num", "1"), Atom("str", "1"), Atom("str", "x"), Atom("null", "null")}
Keys == {"a", "b"}
Members == {<<>>}
    \cup {<<[k |-> k1, v |-> v1]>> : k1 \in Keys, v1 \in Atoms}
    \cup {m \in {<<[k |-> k1, v |-> v1], [k |-> k2, v |-> v2]>> :
                      k1 \in Keys, k2 \in Keys, v1 \in Atoms, v2 \in Atoms} :
             m[1].k # m[2].k}
Obj(m) == [t |-> "obj", s |-> "", m |-> m]
JsonValues == Atoms \cup {Obj(m) : m \in Members}

\* the tokens of a JSON text
Tok(k, str) == [k |-> k, s |-> str]

\* json.dumps of an atom, every atom written as a quoted string
DumpsAtom_Quoted(a) == Tok("string", a.s)

\* json.dumps of an atom: a string is quoted, a number or null is a literal
DumpsAtom(a) == IF a.t = "str" THEN Tok("string", a.s) ELSE Tok("literal", a.s)

\* json.dumps of an object's members, separators=(',', ':')
RECURSIVE DumpsMembers(_)
DumpsMembers(m) ==
    IF m = <<>> THEN <<>>
    ELSE <<Tok("string", m[1].k), Tok(":", ":"), DumpsAtom(m[1].v)>>
         \o (IF Len(m) > 1 THEN <<Tok(",", ",")>> ELSE <<>>)
         \o DumpsMembers(Tail(m))

\* json.dumps(tool_data["arguments"], ensure_ascii=False, separators=(',', ':'))
Dumps(v) ==
    IF v.t = "obj" THEN <<Tok("{", "{")>> \o DumpsMembers(v.m) \o <<Tok("}", "}")>>
    ELSE <<DumpsAtom(v)>>

\* json.loads of one atom
LoadsAtom(tok) ==
    IF tok.k = "string" THEN Atom("str", tok.s)
    ELSE IF tok.s = "null" THEN Atom("null", "null")
    ELSE Atom("num", tok.s)

\* json.loads of an object's members
RECURSIVE LoadsMembers(_)
LoadsMembers(toks) ==
    IF Len(toks) < 3 THEN <<>>
    ELSE <<[k |-> toks[1].s, v |-> LoadsAtom(toks[3])]>>
         \o LoadsMembers(SubSeq(toks, 5, Len(toks)))

\* json.loads(tool_call["function"]["arguments"])
Loads(toks) ==
    IF toks[1].k = "{" THEN Obj(LoadsMembers(SubSeq(toks, 2, Len(toks) - 1)))
    ELSE LoadsAtom(toks[1])

\* A model message is a sequence of symbols:
\*   "S" the text <tool_call>        "E" the text </tool_call>
\*   "G" a JSON object {"name": g_name, "arguments": g_args}
\*   "N" JSON that lacks "name" or "arguments", or is no object at all
\*   "B" any other text, which json.loads rejects
TextSymbols == {"S", "E", "G", "N", "B"}

NoCalls == <<>>

\* list(re.finditer(start_pattern, content)): the positions of the open markers
RECURSIVE StartMatches(_, _)
StartMatches(txt, from) ==
    IF from > Len(txt) THEN <<>>
    ELSE (IF txt[from] = "S" THEN <<from>> ELSE <<>>) \o StartMatches(txt, from + 1)

\* re.search(end_pattern, content[start_pos:]): the first close marker after
\* position p, 0 when there is none
RECURSIVE EndMatch(_, _)
EndMatch(txt, p) ==
    IF p + 1 > Len(txt) THEN 0
    ELSE IF txt[p + 1] = "E" THEN p + 1
    ELSE EndMatch(txt, p + 1)

\* json.loads(json_str) of a block's body: "ok" for an object, "no_key" when
\* tool_data["name"] / tool_data["arguments"] will fail on what it yields,
\* "invalid" for JSONDecodeError
LoadBody(body) ==
    IF body = <<"G">> THEN "ok"
    ELSE IF body = <<"N">> THEN "no_key"
    ELSE "invalid"

\* except json.JSONDecodeError: continue -- the only failure of a block that
\* is skipped; KeyError and TypeError leave _parse_tool_calls
Skipped(outcome) == outcome = "invalid"

\* the loop "for i, start_match in enumerate(start_matches)" from its i-th
\* pass on, with the tool_calls collected so far
RECURSIVE ParseFrom(_, _, _, _, _, _)
ParseFrom(txt, name, args, starts, i, calls) ==
    IF i > Len(starts) THEN [status |-> "ok", calls |-> calls]
    ELSE LET e == EndMatch(txt, starts[i]) IN
         IF e = 0 THEN ParseFrom(txt, name, args, starts, i + 1, calls)
         ELSE LET outcome == LoadBody(SubSeq(txt, starts[i] + 1, e - 1)) IN
              IF outcome = "ok"
              THEN ParseFrom(txt, name, args, starts, i + 1,
                       Append(calls, [id |-> i - 1, name |-> name,
                                      arguments |-> Dumps(args)]))
              ELSE IF Skipped(outcome)
              THEN ParseFrom(txt, name, args, starts, i + 1, calls)
              ELSE [status |-> "raised", calls |-> NoCalls]

\* _parse_tool_calls(content)
ParseToolCalls(txt, name, args) ==
    ParseFrom(txt, name, args, StartMatches(txt, 1), 1, NoCalls)

NoAction == [kind |-> "none", tool_calls |-> NoCalls, content |-> <<>>]

\* tool calls remembered from an earlier turn
StaleCalls == <<[id |-> 0, name |-> "old", arguments |-> <<>>]>>

\* the texts that hold the well-formed block in each surrounding
BlockTexts == {<<"S", "G", "E">>,
               <<"S", "G", "E", "S", "G", "E">>,
               <<"S", "B", "E", "S", "G", "E">>,
               <<"S", "G", "S", "G", "E">>}

ParseOff ==
    /\ ptext = <<>>
    /\ g_name = "f"
    /\ g_args = Obj(<<>>)
    /\ ppc = "off"
    /\ agent_action = NoAction
    /\ last_tool_calls = NoCalls
    /\ env_calls = <<>>

\* act() has the endpoint's response: any text around one body, or one of
\* the block texts around any body
ParseInit ==
    /\ \/ /\ ptext \in SeqsUpTo(TextSymbols, MaxTextLen)
          /\ g_name = "f"
          /\ g_args = Obj(<<[k |-> "a", v |-> Atom("num", "1")]>>)
       \/ /\ ptext \in BlockTexts
          /\ g_name \in {"f", "g"}
          /\ g_args \in JsonValues
    /\ ppc = "convert"
    /\ agent_action = NoAction
    /\ last_tool_calls \in {NoCalls, StaleCalls}
    /\ env_calls = <<>>

\* _convert_response_to_action: tool_calls = self._parse_tool_calls(content);
\* if tool_calls: ... else: ...; an exception of _parse_tool_calls leaves act()
ConvertResponseToAction ==
    /\ ppc = "convert"
    /\ LET r == ParseToolCalls(ptext, g_name, g_args) IN
       IF r.status = "raised"
       THEN /\ agent_action' = [kind |-> "raised", tool_calls |-> NoCalls,
                                content |-> <<>>]
            /\ ppc' = "raised"
            /\ UNCHANGED last_tool_calls
       ELSE IF r.calls # NoCalls
       THEN /\ agent_action' = [kind |-> "tool_calls", tool_calls |-> r.calls,
                                content |-> <<>>]
            /\ last_tool_calls' = r.calls
            /\ ppc' = "execute"
       ELSE /\ agent_action' = [kind |-> "content", tool_calls |-> NoCalls,
                                content |-> ptext]
            /\ last_tool_calls' = NoCalls
            /\ ppc' = "done"
    /\ UNCHANGED <<ptext, g_name, g_args, env_calls>>
    /\ UNCHANGED nonParseVars

\* _execute_tool_call: function_name = tool_call["function"]["name"];
\* arguments = json.loads(tool_call["function"]["arguments"]), per call
ReadToolCalls ==
    /\ ppc = "execute"
    /\ env_calls' = [i \in 1..Len(agent_action.tool_calls) |->
                        [name |-> agent_action.tool_calls[i].name,
                         arguments |-> Loads(agent_action.tool_calls[i].arguments)]]
    /\ ppc' = "done"
    /\ UNCHANGED <<ptext, g_name, g_args, agent_action, last_tool_calls>>
    /\ UNCHANGED nonParseVars

ParseNext ==
    \/ ConvertResponseToAction
    \/ ReadToolCalls

\* the positions of the well-formed blocks of a text: an open marker, one
\* object with "name" and "arguments", a close marker
WellFormedBlocks(txt) ==
    {p \in 1..Len(txt) : /\ p + 2 <= Len(txt)
                         /\ txt[p] = "S"
                         /\ txt[p + 1] = "G"
                         /\ txt[p + 2] = "E"}

Converted == ppc \in {"execute", "done", "raised"}

\* C11: _parse_tool_calls never raises and returns exactly one Tool Call per
\* well-formed block, whatever malformed blocks (unparseable body, body
\* without "name" or "arguments", open marker without close marker) stand
\* around them.
C11_OneCallPerWellFormedBlock ==
    Converted =>
        /\ agent_action.kind # "raised"
        /\ Len(agent_action.tool_calls) = Cardinality(WellFormedBlocks(ptext))

\* C12: a text without any decodable block becomes the content-only Action
\* holding the text verbatim, and the remembered tool calls are cleared.
C12_NoBlockGivesContentAction ==
    (Converted /\ WellFormedBlocks(ptext) = {}) =>
        /\ agent_action = [kind |-> "content", tool_calls |-> NoCalls,
                           content |-> ptext]
        /\ last_tool_calls = NoCalls

\* C13: every decoded Tool Call carries its block's name unchanged, and its
\* arguments string deserializes, in the environment, to exactly the block's
\* arguments value; this for every well-formed block of the text.
C13_ArgumentsRoundTrip ==
    (ppc = "done" /\ agent_action.kind = "tool_calls") =>
        /\ Len(env_calls) = Cardinality(WellFormedBlocks(ptext))
        /\ \A i \in 1..Len(env_calls) :
               env_calls[i] = [name |-> g_name, arguments |-> g_args]

\* two blocks whose arguments hold the string "1" and the number 1
C13_Witness ==
    /\ ppc = "done"
    /\ ptext = <<"S", "G", "E", "S", "G", "E">>
    /\ g_name = "g"
    /\ g_args = Obj(<<[k |-> "a", v |-> Atom("str", "1")],
                      [k |-> "b", v |-> Atom("num", "1")]>>)
    /\ Len(env_calls) = 2
    /\ env_calls[2].arguments = g_args

\* C26: the Tool Calls _parse_tool_calls returns carry the consecutive ids
\* call_0, call_1, ..., call_(n-1) in the textual order of their blocks,
\* also when malformed blocks stand before or between the well-formed ones.
C26_ConsecutiveCallIds ==
    agent_action.kind = "tool_calls" =>
        \A k \in 1..Len(agent_action.tool_calls) :
            agent_action.tool_calls[k].id = k - 1

\* ===================================================================
\* The workspace of the command-line Environment:
\* envs/CommandLineEnvironment.py reset, cleanup, _setup_environment and
\* the file tools; runners/base_runner.py as its caller in a batch
\* ===================================================================

\* what a workspace can hold: the file the task's setup script creates, a
\* file the agent writes with write_file, and a read-only directory with a
\* file in it that the agent makes with execute_shell
\* ("mkdir d && touch d/f && chmod 555 d")
FileNames == {"seed", "a", "d"}

SetupFiles == {"seed"}

Drivers == {"direct", "run_all_tasks"}

NoDir == 0

\* shutil.rmtree raises when an entry cannot be unlinked: the read-only
\* directory stops a process without the privilege to override permissions
RmtreeFails(w) == ~privileged /\ "d" \in files[w]

\* cleanup(): rmtree of the workspace when workspace_dir is set and exists;
\* workspace_dir = None only after rmtree succeeded, a failure is printed
\* and swallowed, leaving what rmtree had not removed yet.  The set of
\* possible outcomes [wd, ds, fs].
Cleanup ==
    IF workspace_dir # NoDir /\ workspace_dir \in dirs
    THEN IF RmtreeFails(workspace_dir)
         THEN { [wd |-> workspace_dir, ds |-> dirs,
                 fs |-> [files EXCEPT ![workspace_dir] = rest \cup {"d"}]] :
                rest \in SUBSET (files[workspace_dir] \ {"d"}) }
         ELSE { [wd |-> NoDir, ds |-> dirs \ {workspace_dir},
                 fs |-> [files EXCEPT ![workspace_dir] = {}]] }
    ELSE { [wd |-> workspace_dir, ds |-> dirs, fs |-> files] }

\* tempfile.mkdtemp(): a directory that did not exist before
Mkdtemp == made + 1

\* _setup_environment: exec of the task's setup script in the workspace;
\* it creates the task's files, or raises after creating some of them
SetupEnvironment == { [raised |-> FALSE, created |-> SetupFiles] } \cup
                    { [raised |-> TRUE, created |-> c] : c \in SUBSET SetupFiles }

WorkspaceOff ==
    /\ driver = "off"
    /\ privileged = FALSE
    /\ wpc = "off"
    /\ workspace_dir = NoDir
    /\ dirs = {}
    /\ files = [w \in 1..MaxDirs |-> {}]
    /\ made = 0
    /\ episode = 0

\* the process runs with or without the privilege to override file
\* permissions; the Environment is driven by run_all_tasks or directly
WorkspaceInit ==
    /\ driver \in Drivers
    /\ privileged \in BOOLEAN
    /\ wpc = "start"
    /\ workspace_dir = NoDir
    /\ dirs = {}
    /\ files = [w \in 1..MaxDirs |-> {}]
    /\ made = 0
    /\ episode = 0

\* CommandLineEnvironment(data_file, task_id): workspace_dir = None.
\* run_single_task creates one Environment per episode.
WorkspaceNew ==
    /\ wpc \in {"start", "cleaned"}
    /\ episode < MaxEpisodes
    /\ episode' = episode + 1
    /\ workspace_dir' = NoDir
    /\ wpc' = "constructed"
    /\ UNCHANGED <<driver, privileged, dirs, files, made>>
    /\ UNCHANGED nonWorkspaceVars

\* reset(): cleanup(), mkdtemp(), _setup_environment.  run_single_task
\* resets an Environment once; a direct caller may reset it again.
WorkspaceReset ==
    /\ IF driver = "run_all_tasks"
       THEN wpc = "constructed"
       ELSE wpc \in {"constructed", "ready", "failed", "cleaned"}
    /\ made < MaxDirs
    /\ \E c \in Cleanup, su \in SetupEnvironment :
          /\ workspace_dir' = Mkdtemp
          /\ made' = Mkdtemp
          /\ dirs' = c.ds \cup {Mkdtemp}
          /\ files' = [c.fs EXCEPT ![Mkdtemp] = su.created]
          /\ wpc' = IF su.raised THEN "failed" ELSE "ready"
    /\ UNCHANGED <<driver, privileged, episode>>
    /\ UNCHANGED nonWorkspaceVars

\* step() with a tool call that changes the workspace: _write_file, or
\* _execute_shell making the read-only directory
WorkspaceStep ==
    /\ wpc = "ready"
    /\ workspace_dir \in dirs
    /\ \E f \in {"a", "d"} :
          files' = [files EXCEPT ![workspace_dir] = @ \cup {f}]
    /\ UNCHANGED <<driver, privileged, wpc, workspace_dir, dirs, made, episode>>
    /\ UNCHANGED nonWorkspaceVars

\* cleanup() called from outside reset: the finally of run_single_task
\* (after a reset that returned or raised), or a direct caller
WorkspaceCleanup ==
    /\ wpc \in {"ready", "failed"}
    /\ \E c \in Cleanup :
          /\ workspace_dir' = c.wd
          /\ dirs' = c.ds
          /\ files' = c.fs
    /\ wpc' = "cleaned"
    /\ UNCHANGED <<driver, privileged, made, episode>>
    /\ UNCHANGED nonWorkspaceVars

WorkspaceNext ==
    \/ WorkspaceNew
    \/ WorkspaceReset
    \/ WorkspaceStep
    \/ WorkspaceCleanup

\* C21: a second reset() on the same Environment, after any steps, leaves
\* the previous workspace directory deleted and a new workspace that holds
\* only what the setup script creates.
C21_SecondResetStartsClean ==
    [][(workspace_dir # NoDir /\ made' # made /\ wpc' = "ready")
          => /\ workspace_dir \notin dirs'
             /\ workspace_dir' # workspace_dir
             /\ files'[workspace_dir'] = SetupFiles]_vars

\* C25: in a batch run the workspace of an episode is gone once its
\* run_single_task has called cleanup(), so no workspace of an earlier
\* episode exists while a later one is set up or live.
C25_OneLiveWorkspace ==
    driver = "run_all_tasks"
        => /\ Cardinality(dirs) <= 1
           /\ wpc \in {"cleaned", "constructed"} => dirs = {}


\* ===================================================================
\* Concurrent requests: core/base.py _make_api_calls_concurrent
\* ===================================================================

\* how one _make_api_call in a worker ends: a response, or an exception
CallOutcomes == {"ok", "fail"}

Futures == 1..n_messages

Running == {i \in Futures : future[i] = "running"}

Finished == {i \in Futures : future[i] = "finished"}

ConcurrentOff ==
    /\ n_messages = 0
    /\ max_workers = 0
    /\ call_outcome = <<>>
    /\ future = <<>>
    /\ yielded = {}
    /\ call_results = <<>>
    /\ cpc = "off"

\* _make_api_calls_concurrent(messages_list, max_workers): one future per
\* element of messages_list, submitted in order, before the first is awaited
ConcurrentInit ==
    /\ n_messages \in 0..MaxMessages
    /\ max_workers \in 1..MaxWorkers
    /\ call_outcome \in [1..n_messages -> CallOutcomes]
    /\ future = [i \in 1..n_messages |-> "pending"]
    /\ yielded = {}
    /\ call_results = <<>>
    /\ cpc = "as_completed"

\* a worker thread of the pool takes the oldest queued work item
WorkerStart ==
    /\ Cardinality(Running) < max_workers
    /\ \E i \in Futures :
          /\ future[i] = "pending"
          /\ \A j \in Futures : j < i => future[j] # "pending"
          /\ future' = [future EXCEPT ![i] = "running"]
    /\ UNCHANGED <<n_messages, max_workers, call_outcome, yielded, call_results,
                   cpc>>
    /\ UNCHANGED nonConcurrentVars

\* its _make_api_call returns or raises; the future holds the outcome
WorkerFinish ==
    /\ \E i \in Running : future' = [future EXCEPT ![i] = "finished"]
    /\ UNCHANGED <<n_messages, max_workers, call_outcome, yielded, call_results,
                   cpc>>
    /\ UNCHANGED nonConcurrentVars

AsCompleted_Repeats == Finished

\* as_completed(future_to_messages): each future once, as it finishes
AsCompleted == Finished \ yielded

\* for future in as_completed(...): results.append(future.result()), or
\* raise APIError from the first future whose call raised
Collect ==
    /\ cpc = "as_completed"
    /\ \E i \in AsCompleted :
          /\ yielded' = yielded \cup {i}
          /\ IF call_outcome[i] = "ok"
             THEN /\ call_results' = Append(call_results, i)
                  /\ UNCHANGED cpc
             ELSE /\ cpc' = "raising"
                  /\ UNCHANGED call_results
    /\ UNCHANGED <<n_messages, max_workers, call_outcome, future>>
    /\ UNCHANGED nonConcurrentVars

\* as_completed is exhausted when every future has been yielded
LoopEnd ==
    /\ cpc = "as_completed"
    /\ yielded = Futures
    /\ cpc' = "exit"
    /\ UNCHANGED <<n_messages, max_workers, call_outcome, future, yielded,
                   call_results>>
    /\ UNCHANGED nonConcurrentVars

\* the with block ends: executor.shutdown(wait=True) returns when every
\* submitted call has run to its end; then return results, or the APIError
\* goes on to the caller
ExecutorExit ==
    /\ cpc \in {"exit", "raising"}
    /\ Finished = Futures
    /\ cpc' = IF cpc = "exit" THEN "returned" ELSE "raised"
    /\ UNCHANGED <<n_messages, max_workers, call_outcome, future, yielded,
                   call_results>>
    /\ UNCHANGED nonConcurrentVars

ConcurrentNext ==
    \/ WorkerStart
    \/ WorkerFinish
    \/ Collect
    \/ LoopEnd
    \/ ExecutorExit

AllSucceed == \A i \in Futures : call_outcome[i] = "ok"

\* C24: _make_api_calls_concurrent is all-or-nothing under every
\* interleaving of the workers: it returns only when every request
\* succeeded, with exactly one result per submitted request and after all
\* workers have finished; it raises APIError, returning no list, exactly
\* when some request failed.
C24_AllOrNothing ==
    /\ cpc = "returned"
          => /\ AllSucceed
             /\ Len(call_results) = n_messages
             /\ \A i \in Futures :
                   Cardinality({k \in 1..Len(call_results) : call_results[k] = i}) = 1
             /\ Finished = Futures
    /\ cpc = "raised" => ~AllSucceed /\ Finished = Futures
    /\ cpc = "raising" => ~AllSucceed

\* three requests all succeed and are collected out of submission order
C24_Witness ==
    /\ cpc = "returned"
    /\ n_messages = 3
    /\ call_results = <<2, 1, 3>>

\* C38: _make_api_calls_concurrent returns its results in the order of the
\* submitted requests, result i being the response to messages_list[i],
\* for every completion order of the workers.
C38_ResultsInSubmissionOrder ==
    cpc = "returned" => call_results = [i \in 1..n_messages |-> i]


\* C28: in incremental delivery the completed message is the concatenation,
\* in arrival order, of the content of every well-formed fragment received
\* before the end marker or the close of the transport; a fragment that is
\* not one is skipped without error.
C28_StreamIsConcatenation ==
    dpc = "finished" =>
        stream_result = IF client = "agent"
                        THEN [kind |-> "message", val |-> well_formed]
                        ELSE ParseEnvOutput(well_formed)

\* ===================================================================
\* Re-injection of tool results: agents/deepseekAgent.py
\* _format_tool_responses
\* ===================================================================

\* the characters of a result string: two letters, the line break and the
\* space
Chars == {"x", "y", "NL", "SP"}

\* what str.strip() removes
Whitespace == {"NL", "SP"}

ToolNames == {"read_file", "write_file"}

RECURSIVE LStrip(_)
LStrip(s) ==
    IF s # <<>> /\ Head(s) \in Whitespace THEN LStrip(Tail(s)) ELSE s

RECURSIVE RStrip(_)
RStrip(s) ==
    IF s # <<>> /\ s[Len(s)] \in Whitespace
    THEN RStrip(SubSeq(s, 1, Len(s) - 1))
    ELSE s

\* str.strip()
Strip(s) == RStrip(LStrip(s))

\* str.split('\n'): the pieces between the line breaks, at least one
RECURSIVE SplitFrom(_, _, _)
SplitFrom(s, cur, acc) ==
    IF s = <<>> THEN Append(acc, cur)
    ELSE IF Head(s) = "NL" THEN SplitFrom(Tail(s), <<>>, Append(acc, cur))
    ELSE SplitFrom(Tail(s), Append(cur, Head(s)), acc)

SplitLines(s) == SplitFrom(s, <<>>, <<>>)

\* <tool_response name="{tool_name}">{response_content}</tool_response>
ResponseBlock(tool_name, response_content) ==
    [name |-> tool_name, content |-> response_content]

\* _format_tool_responses(env_response) with self._last_tool_calls naming
\* tool_names: the unwrapped string when no call is remembered, one block
\* around the whole string for one call, and otherwise one block per call
\* with line i of the stripped string, or the whole string past the last
\* line; the blocks are joined in call order
FormatToolResponses(tool_names, resp) ==
    IF tool_names = <<>>
    THEN [wrapped |-> FALSE, text |-> resp, blocks |-> <<>>]
    ELSE IF Len(tool_names) = 1
    THEN [wrapped |-> TRUE, text |-> <<>>,
          blocks |-> <<ResponseBlock(tool_names[1], resp)>>]
    ELSE LET lines == SplitLines(Strip(resp))
         IN [wrapped |-> TRUE, text |-> <<>>,
             blocks |-> [i \in 1..Len(tool_names) |->
                            ResponseBlock(tool_names[i],
                                          IF i <= Len(lines) THEN lines[i]
                                                             ELSE resp)]]

NoFormatted == [wrapped |-> FALSE, text |-> <<>>, blocks |-> <<>>]

FormatOff ==
    /\ remembered = <<>>
    /\ env_response = <<>>
    /\ formatted = NoFormatted
    /\ fpc = "off"

\* the agent remembers the names of the calls of its last action, and the
\* environment's observation for them arrives
FormatInit ==
    /\ remembered \in SeqsUpTo(ToolNames, MaxRemembered)
    /\ env_response \in SeqsUpTo(Chars, MaxResponseLen)
    /\ formatted = NoFormatted
    /\ fpc = "format"

\* _convert_observation_to_messages calls _format_tool_responses
FormatObservation ==
    /\ fpc = "format"
    /\ formatted' = FormatToolResponses(remembered, env_response)
    /\ fpc' = "done"
    /\ UNCHANGED <<remembered, env_response>>
    /\ UNCHANGED nonFormatVars

FormatNext == FormatObservation

\* C27: for N remembered calls exactly N response blocks are produced, in
\* call order and each named after its call; for N = 1 the block holds the
\* whole result, for N > 1 call i holds line i of the result split on line
\* breaks when there is such a line and the entire result otherwise.
C27_ResultSplitPerCall ==
    (fpc = "done" /\ remembered # <<>>)
        => /\ Len(formatted.blocks) = Len(remembered)
           /\ \A i \in 1..Len(remembered) :
                 /\ formatted.blocks[i].name = remembered[i]
                 /\ formatted.blocks[i].content =
                       IF Len(remembered) = 1 THEN env_response
                       ELSE IF i <= Len(SplitLines(env_response))
                            THEN SplitLines(env_response)[i]
                            ELSE env_response


\* ===================================================================
\* The timeout guard on its own: core/base.py timeout_context, with the
\* delivery of SIGALRM
\* ===================================================================

\* the handler installed before the first guard
PreviousHandler == 0

\* timeout_handler of the k-th guard: a new closure per timeout_context call
TimeoutHandler(k) == k

\* how the guarded work ends by itself
WorkEnds == {"normal", "exception"}

GuardOff ==
    /\ seconds = 0
    /\ work_left = 0
    /\ work_end = "none"
    /\ gpc = "off"
    /\ remaining = 0
    /\ tripped = FALSE
    /\ handler = PreviousHandler
    /\ old_handler = PreviousHandler
    /\ raised_in = "none"
    /\ guards = 0

\* a step() is about to enter with timeout_context(timeout) around work
\* that needs work_left units of time
GuardInit ==
    /\ seconds \in 1..MaxSeconds
    /\ work_left \in 0..MaxWork
    /\ work_end = "none"
    /\ gpc = "enter"
    /\ remaining = 0
    /\ tripped = FALSE
    /\ handler = PreviousHandler
    /\ old_handler = PreviousHandler
    /\ raised_in = "none"
    /\ guards = 0

\* old_handler = signal.signal(SIGALRM, timeout_handler);
\* signal.alarm(seconds); then the body of the with block starts
GuardEnter ==
    /\ gpc = "enter"
    /\ guards' = guards + 1
    /\ old_handler' = handler
    /\ handler' = TimeoutHandler(guards + 1)
    /\ remaining' = seconds
    /\ raised_in' = "none"
    /\ gpc' = "work"
    /\ UNCHANGED <<seconds, work_left, work_end, tripped>>
    /\ UNCHANGED nonGuardVars

\* one unit of time passes while the work runs, the deadline not reached
Tick ==
    /\ gpc = "work"
    /\ work_left >= 1
    /\ remaining # 1
    /\ ~tripped
    /\ work_left' = work_left - 1
    /\ remaining' = IF remaining = 0 THEN 0 ELSE remaining - 1
    /\ UNCHANGED <<seconds, work_end, gpc, tripped, handler, old_handler,
                   raised_in, guards>>
    /\ UNCHANGED nonGuardVars

\* the alarm goes off: the kernel delivers SIGALRM, the interpreter notes it
\* and runs the Python handler at its next check.  This is the last unit of
\* the alarm; the work may be running or the block may just have been left.
Deadline ==
    /\ remaining = 1
    /\ gpc \in {"work", "exit"}
    /\ remaining' = 0
    /\ tripped' = TRUE
    /\ work_left' = IF gpc = "work" /\ work_left >= 1 THEN work_left - 1
                                                       ELSE work_left
    /\ UNCHANGED <<seconds, work_end, gpc, handler, old_handler, raised_in,
                   guards>>
    /\ UNCHANGED nonGuardVars

\* the body of the with block ends by itself, normally or by an exception
WorkDone ==
    /\ gpc = "work"
    /\ work_left = 0
    /\ ~tripped
    /\ work_end' \in WorkEnds
    /\ gpc' = "exit"
    /\ UNCHANGED <<seconds, work_left, remaining, tripped, handler, old_handler,
                   raised_in, guards>>
    /\ UNCHANGED nonGuardVars

\* the interpreter runs timeout_handler: raise TimeoutError where the main
\* thread is.  In the body, the work hands it on or one of its own
\* "except Exception" takes it and the work goes on; on the way out of the
\* block (before the generator is resumed, or in its finally before
\* signal.signal) it replaces the exit: the finally is cut short, or is
\* run later when the generator is finalised.
HandlerRuns ==
    /\ tripped
    /\ tripped' = FALSE
    /\ \/ /\ gpc = "work"
          /\ raised_in' = "work"
          /\ \/ /\ gpc' = "exit"
                /\ work_end' = "timeout"
             \/ UNCHANGED <<gpc, work_end>>
          /\ UNCHANGED handler
       \/ /\ gpc = "exit"
          /\ raised_in' = "exit"
          /\ gpc' = "left"
          /\ work_end' = "timeout"
          /\ handler' \in {handler, old_handler}
    /\ UNCHANGED <<seconds, work_left, remaining, old_handler, guards>>
    /\ UNCHANGED nonGuardVars

\* signal.signal(signal.SIGALRM, old_handler)
RestoreHandler(h, old) == old

\* finally: signal.alarm(0); signal.signal(SIGALRM, old_handler); the block
\* is left with the work's result or exception
GuardExit ==
    /\ gpc = "exit"
    /\ ~tripped
    /\ remaining' = 0
    /\ handler' = RestoreHandler(handler, old_handler)
    /\ gpc' = "left"
    /\ UNCHANGED <<seconds, work_left, work_end, tripped, old_handler, raised_in,
                   guards>>
    /\ UNCHANGED nonGuardVars

\* step() has returned; the runner goes on to the next agent call and the
\* next step(), which enters its own guard
NextGuard ==
    /\ gpc = "left"
    /\ guards < MaxGuards
    /\ work_left' \in 0..MaxWork
    /\ work_end' = "none"
    /\ gpc' = "enter"
    /\ UNCHANGED <<seconds, remaining, tripped, handler, old_handler, raised_in,
                   guards>>
    /\ UNCHANGED nonGuardVars

GuardNext ==
    \/ GuardEnter
    \/ Tick
    \/ Deadline
    \/ WorkDone
    \/ HandlerRuns
    \/ GuardExit
    \/ NextGuard

\* C29: when the guarded work has ended, normally or by an exception, no
\* alarm is pending and the previous signal handler is back, so the guard
\* of one step cannot fire after the step has returned; and when the work
\* is still running at the deadline the timeout failure is raised inside it.
C29_GuardIsTornDown ==
    /\ (guards >= 1 /\ gpc \in {"left", "enter"})
          => /\ remaining = 0
             /\ ~tripped
             /\ handler = old_handler
    /\ (gpc = "work" /\ remaining = 0 /\ ~tripped) => raised_in = "work"


\* ===================================================================
\* The agent's conversation state over the episodes of one runner:
\* agents/deepseekAgent.py under BaseRunner.run_all_tasks and under
\* TrainingDataSynthesizer.synthesize_all_tasks
\* ===================================================================

SessionEntries == {"run_all_tasks", "synthesize_all_tasks"}

\* tools_info before any act() was given a tool list
NoTools == -1

\* no observation yet, nothing saved
NoObservation == [task |-> -1, kind |-> "none"]
NoTrainingData == <<>>

\* the outcomes of one act(): the reply holds tool calls, the reply is plain
\* text, or the API call raises
ActOutcomes == {"tool_calls", "content", "raise"}

\* observation.startswith('<tool_response')
StartsWithToolResponse(obs) == obs.kind = "tool_response"

\* _build_system_prompt: the prompt lists the tools in tools_info
BuildSystemPrompt(info) == [role |-> "system", task |-> info, form |-> "prompt"]

\* _convert_observation_to_messages: the history after the observation
\* has been appended
ConvertObservationToMessages(hist, calls, info, obs) ==
    LET withSystem == IF hist = <<>> THEN <<BuildSystemPrompt(info)>> ELSE hist
        user == IF calls # <<>> /\ ~StartsWithToolResponse(obs)
                THEN [role |-> "user", task |-> obs.task, form |-> "wrapped"]
                ELSE [role |-> "user", task |-> obs.task, form |-> obs.kind]
    IN  Append(withSystem, user)

\* _convert_response_to_action: the assistant message
AssistantMessage(t) == [role |-> "assistant", task |-> t, form |-> "reply"]

\* DeepSeekAgent.reset
AgentReset ==
    /\ conversation_history' = <<>>
    /\ kept_tool_calls' = <<>>

SessionOff ==
    /\ session_entry = "off"
    /\ session_tasks = 0
    /\ session_max_turns = 0
    /\ session_task = 0
    /\ sepc = "off"
    /\ session_turn = 0
    /\ session_done = FALSE
    /\ observation = NoObservation
    /\ tools_info = NoTools
    /\ conversation_history = <<>>
    /\ kept_tool_calls = <<>>
    /\ first_messages = <<>>
    /\ training_data = NoTrainingData

\* a runner with a freshly constructed agent, before the first task
SessionInit ==
    /\ session_entry \in SessionEntries
    /\ session_tasks \in 1..MaxEpisodes
    /\ session_max_turns \in 1..MaxTurns
    /\ session_task = 0
    /\ sepc = "for_task"
    /\ session_turn = 0
    /\ session_done = FALSE
    /\ observation = NoObservation
    /\ tools_info = NoTools
    /\ conversation_history = <<>>
    /\ kept_tool_calls = <<>>
    /\ first_messages = <<>>
    /\ training_data = NoTrainingData

\* for task_id in range(len(self.tasks)): the next episode is entered
SessionForTask ==
    /\ sepc = "for_task"
    /\ IF session_task < session_tasks
       THEN /\ sepc' = "reset"
            /\ session_turn' = 0
            /\ session_done' = FALSE
            /\ first_messages' = <<>>
            /\ training_data' = NoTrainingData
       ELSE /\ sepc' = "returned"
            /\ UNCHANGED <<session_turn, session_done, first_messages, training_data>>
    /\ UNCHANGED <<session_entry, session_tasks, session_max_turns, session_task,
                   observation, tools_info, conversation_history, kept_tool_calls>>
    /\ UNCHANGED nonSessionVars

\* observation, tools = env.reset(), followed by self.agent.reset() in the
\* synthesizer only; a reset that raises ends the episode
SessionReset ==
    /\ sepc = "reset"
    /\ \/ /\ observation' = [task |-> session_task, kind |-> "query"]
          /\ IF session_entry = "synthesize_all_tasks"
             THEN AgentReset
             ELSE UNCHANGED <<conversation_history, kept_tool_calls>>
          /\ sepc' = "loop"
          /\ UNCHANGED session_task
       \/ /\ sepc' = "for_task"
          /\ session_task' = session_task + 1
          /\ UNCHANGED <<observation, conversation_history, kept_tool_calls>>
    /\ UNCHANGED <<session_entry, session_tasks, session_max_turns, session_turn,
                   session_done, tools_info, first_messages, training_data>>
    /\ UNCHANGED nonSessionVars

\* while not done and turn_count < max_turns: turn_count += 1
SessionLoop ==
    /\ sepc = "loop"
    /\ IF ~session_done /\ session_turn < session_max_turns
       THEN /\ session_turn' = session_turn + 1
            /\ sepc' = "act"
       ELSE /\ sepc' = "after_loop"
            /\ UNCHANGED session_turn
    /\ UNCHANGED <<session_entry, session_tasks, session_max_turns, session_task,
                   session_done, observation, tools_info, conversation_history,
                   kept_tool_calls, first_messages, training_data>>
    /\ UNCHANGED nonSessionVars

\* action = self.agent.act(observation, tools if turn_count == 1 else None);
\* an exception of the API call leaves act() after the observation was
\* appended and ends the loop
SessionAct ==
    /\ sepc = "act"
    /\ \E outcome \in ActOutcomes :
         LET info == IF session_turn = 1 THEN session_task ELSE tools_info
             messages == ConvertObservationToMessages(conversation_history,
                             kept_tool_calls, info, observation)
             appended == SubSeq(messages, Len(conversation_history) + 1, Len(messages))
         IN  /\ tools_info' = info
             /\ first_messages' = IF session_turn = 1 THEN appended ELSE first_messages
             /\ IF outcome = "raise"
                THEN /\ conversation_history' = messages
                     /\ UNCHANGED kept_tool_calls
                     /\ sepc' = "after_loop"
                ELSE /\ conversation_history' =
                            Append(messages, AssistantMessage(session_task))
                     /\ kept_tool_calls' = IF outcome = "tool_calls"
                                           THEN <<session_task>> ELSE <<>>
                     /\ sepc' = "step"
    /\ UNCHANGED <<session_entry, session_tasks, session_max_turns, session_task,
                   session_turn, session_done, observation, training_data>>
    /\ UNCHANGED nonSessionVars

\* next_observation, reward, done = env.step(action); observation =
\* next_observation; a step that raises ends the loop
SessionStep ==
    /\ sepc = "step"
    /\ \/ \E d \in BOOLEAN, k \in {"result", "tool_response"} :
            /\ observation' = [task |-> session_task, kind |-> k]
            /\ session_done' = d
            /\ sepc' = "loop"
       \/ /\ sepc' = "after_loop"
          /\ UNCHANGED <<observation, session_done>>
    /\ UNCHANGED <<session_entry, session_tasks, session_max_turns, session_task,
                   session_turn, tools_info, conversation_history, kept_tool_calls,
                   first_messages, training_data>>
    /\ UNCHANGED nonSessionVars

\* after the loop: the synthesizer saves agent._conversation_history when it
\* has at least three messages; the episode returns
SessionAfterLoop ==
    /\ sepc = "after_loop"
    /\ training_data' = IF session_entry = "synthesize_all_tasks"
                           /\ Len(conversation_history) >= 3
                        THEN conversation_history
                        ELSE NoTrainingData
    /\ sepc' = "episode_end"
    /\ UNCHANGED <<session_entry, session_tasks, session_max_turns, session_task,
                   session_turn, session_done, observation, tools_info,
                   conversation_history, kept_tool_calls, first_messages>>
    /\ UNCHANGED nonSessionVars

\* results.append(result): on to the next task
SessionEpisodeEnd ==
    /\ sepc = "episode_end"
    /\ session_task' = session_task + 1
    /\ sepc' = "for_task"
    /\ UNCHANGED <<session_entry, session_tasks, session_max_turns, session_turn,
                   session_done, observation, tools_info, conversation_history,
                   kept_tool_calls, first_messages, training_data>>
    /\ UNCHANGED nonSessionVars

SessionNext ==
    \/ SessionForTask
    \/ SessionReset
    \/ SessionLoop
    \/ SessionAct
    \/ SessionStep
    \/ SessionAfterLoop
    \/ SessionEpisodeEnd

\* system, then user and assistant in turn, ending with assistant
WellFormedConversation(msgs) ==
    /\ Len(msgs) >= 3
    /\ Len(msgs) % 2 = 1
    /\ \A i \in 1..Len(msgs) :
         msgs[i].role = IF i = 1 THEN "system"
                        ELSE IF i % 2 = 0 THEN "user" ELSE "assistant"

\* C33: in a batch run of the runner, at the first act() call of every
\* episode the agent's history holds no message of an earlier task and no
\* tool calls remembered from an earlier task, and after that call the
\* episode's messages are a system prompt built from this episode's tools
\* and the initial query as a plain user message
C33_EpisodeStartsWithCleanAgent ==
    (session_entry = "run_all_tasks" /\ session_turn = 1)
        => /\ sepc = "act" =>
                /\ \A i \in 1..Len(conversation_history) :
                      conversation_history[i].task = session_task
                /\ kept_tool_calls = <<>>
           /\ sepc \in {"step", "after_loop"} =>
                first_messages =
                    << BuildSystemPrompt(session_task),
                       [role |-> "user", task |-> session_task, form |-> "query"] >>

\* C40: every conversation the synthesizer saves is one system message,
\* then user and assistant messages in turn, ending with an assistant
\* message
C40_SavedConversationAlternates ==
    (session_entry = "synthesize_all_tasks" /\ training_data # NoTrainingData)
        => WellFormedConversation(training_data)

\* ===================================================================
\* Specifications
\* ===================================================================

\* a run_single_task call
Init == SingleInit /\ StepOff /\ DeliveryOff /\ ParseOff /\ WorkspaceOff /\ ConcurrentOff /\ FormatOff /\ GuardOff /\ SessionOff

Next == EpisodeNext

Spec == Init /\ [][Next]_vars

\* a run_all_tasks call
InitBatch == BatchInit /\ StepOff /\ DeliveryOff /\ ParseOff /\ WorkspaceOff /\ ConcurrentOff /\ FormatOff /\ GuardOff /\ SessionOff

SpecBatch == InitBatch /\ [][BatchNext]_vars

\* one step() call of an environment, or NLPEnvironment.reset()
InitStep == StepInit /\ RunnerOff /\ DeliveryOff /\ ParseOff /\ WorkspaceOff /\ ConcurrentOff /\ FormatOff /\ GuardOff /\ SessionOff

SpecStep == InitStep /\ [][StepNext]_vars

\* the same, for termination: the interpreter keeps executing the call, and
\* every blocking operation in it is bounded (the request by its timeout,
\* the sleep by its duration)
SpecStepFair == InitStep /\ [][StepNext]_vars /\ WF_vars(StepNext)

\* one completion requested in both delivery modes
InitDelivery == DeliveryInit /\ RunnerOff /\ StepOff /\ ParseOff /\ WorkspaceOff /\ ConcurrentOff /\ FormatOff /\ GuardOff /\ SessionOff
SpecDelivery == InitDelivery /\ [][DeliveryNext]_vars

\* one model message converted by the agent and read by the environment
InitParse == ParseInit /\ RunnerOff /\ StepOff /\ DeliveryOff /\ WorkspaceOff /\ ConcurrentOff /\ FormatOff /\ GuardOff /\ SessionOff
SpecParse == InitParse /\ [][ParseNext]_vars

\* a command-line Environment driven through resets, steps and cleanups
InitWorkspace == WorkspaceInit /\ RunnerOff /\ StepOff /\ DeliveryOff /\ ParseOff /\ ConcurrentOff /\ FormatOff /\ GuardOff /\ SessionOff
SpecWorkspace == InitWorkspace /\ [][WorkspaceNext]_vars

\* one _make_api_calls_concurrent call
InitConcurrent == ConcurrentInit /\ RunnerOff /\ StepOff /\ DeliveryOff /\ ParseOff /\ WorkspaceOff /\ FormatOff /\ GuardOff /\ SessionOff
SpecConcurrent == InitConcurrent /\ [][ConcurrentNext]_vars

\* one observation formatted for the calls the agent remembers
InitFormat == FormatInit /\ RunnerOff /\ StepOff /\ DeliveryOff /\ ParseOff /\ WorkspaceOff /\ ConcurrentOff /\ GuardOff /\ SessionOff
SpecFormat == InitFormat /\ [][FormatNext]_vars

\* steps entering and leaving their timeout guard
InitGuard == GuardInit /\ RunnerOff /\ StepOff /\ DeliveryOff /\ ParseOff /\ WorkspaceOff /\ ConcurrentOff /\ FormatOff /\ SessionOff
SpecGuard == InitGuard /\ [][GuardNext]_vars

\* one agent over the episodes of a batch
InitSession == SessionInit /\ RunnerOff /\ StepOff /\ DeliveryOff /\ ParseOff /\ WorkspaceOff /\ ConcurrentOff /\ FormatOff /\ GuardOff
SpecSession == InitSession /\ [][SessionNext]_vars
====
